---------------------------- MODULE Spec2Model ----------------------------
(***************************************************************************)
(* Model of the Tab Note Converter (src/TabNoteConverter.py): the three    *)
(* renderers (raw_to_markdown, markdown_to_html, raw_to_slack_html) and    *)
(* the two binary builders (_build_cf_html, _build_chromium_custom_mime),  *)
(* together with the Pickle decoder of src/tools/clipboard_inspect_v2.py,  *)
(* and the three commands with the clipboard placement of                  *)
(* set_clipboard_html (native path, PowerShell fallback, text placement).  *)
(*                                                                         *)
(* A Python str is a sequence of one-character strings (renderers) or of   *)
(* code points (binary builders); bytes are sequences of 0..255.           *)
(***************************************************************************)
EXTENDS Integers, Sequences, FiniteSets, TLC

VARIABLES
    pc,             \* position in the conversion under way
    text,           \* the raw outline text handed to the renderers
    entry,          \* the function called: "raw" text or "md" text
    lines,          \* lines still to be read by the running renderer's loop
    result,         \* raw_to_markdown: result
    md_out,         \* raw_to_markdown: returned string
    html_parts,     \* markdown_to_html: html_parts
    current_depth,  \* markdown_to_html: current_depth
    html_out,       \* markdown_to_html: returned string
    parts,          \* raw_to_slack_html: parts
    list_stack,     \* raw_to_slack_html: list_stack
    div_open,       \* raw_to_slack_html: div_open
    first_heading,  \* raw_to_slack_html: first_heading
    slack_out,      \* raw_to_slack_html: returned string
    entries,        \* _build_chromium_custom_mime: entries
    todo,           \* entries the running loop has still to visit
    payload_parts,  \* _build_chromium_custom_mime: payload_parts
    pickle_out,     \* _build_chromium_custom_mime: returned bytes
    offset,         \* decode_chromium_pickle: offset
    num_entries,    \* decode_chromium_pickle: num_entries
    decoded,        \* decode_chromium_pickle: the (mime, content) pairs shown
    html_fragment,  \* _build_cf_html: html_fragment
    offsets,        \* _build_cf_html: start_html, end_html, start_fragment,
                    \* end_fragment
    cf_out,         \* _build_cf_html: returned string
    command,        \* the command whose run() is under way
    platform,       \* sys.platform
    html,           \* set_clipboard_html: html
    plain_text,     \* set_clipboard_html: plain_text
    chromium_custom_data,  \* set_clipboard_html: chromium_custom_data
    clipboard,      \* the system clipboard: the payload of every format
    clip_open,      \* the clipboard is open by this process
    api_log,        \* the user32 clipboard calls made, in order
    tiers,          \* the placement mechanisms attempted, in order
    failures,       \* the exceptions caught by set_clipboard_html, in order
    raised,         \* an exception is propagating in the running function
    tmp_file,       \* _set_clipboard_html_powershell: tmp_path exists
    ret,            \* set_clipboard_html: returned value
    status          \* the messages shown by sublime.status_message

render_vars == <<pc, text, entry, lines, result, md_out, html_parts, current_depth,
                 html_out, parts, list_stack, div_open, first_heading,
                 slack_out>>

pickle_vars == <<entries, todo, payload_parts, pickle_out, offset,
                 num_entries, decoded>>

cf_vars == <<html_fragment, offsets, cf_out>>

clip_vars == <<command, platform, html, plain_text, chromium_custom_data,
               clipboard, clip_open, api_log, tiers, failures, raised,
               tmp_file, ret, status>>

vars == <<render_vars, pickle_vars, cf_vars, clip_vars>>

---------------------------------------------------------------------------
(* Bounds of the explored inputs.                                          *)

MaxTabs == 4
MaxLines == 3
MaxIndent == 3
MaxMdLines == 2

---------------------------------------------------------------------------
(* Python str primitives on sequences of characters.                       *)

TAB == "\t"
NL == "\n"

\* Characters str.strip()/str.rstrip() remove and the regex class \s matches.
Whitespace == {" ", "\t", "\n", "\r", "\f"}

RECURSIVE Concat(_)
\* ''.join(seq_of_strings)
Concat(ss) ==
    IF ss = <<>> THEN <<>>
    ELSE IF Len(ss) = 1 THEN ss[1]
    ELSE LET h == Len(ss) \div 2
         IN Concat(SubSeq(ss, 1, h)) \o Concat(SubSeq(ss, h + 1, Len(ss)))

RECURSIVE Repeat(_, _)
\* s * n
Repeat(s, n) == IF n <= 0 THEN <<>> ELSE s \o Repeat(s, n - 1)

RECURSIVE split(_, _)
\* s.split(sep) for a one-character sep: always at least one piece.
split(s, sep) ==
    IF \A i \in 1..Len(s) : s[i] # sep
    THEN <<s>>
    ELSE LET k == CHOOSE i \in 1..Len(s) :
                      s[i] = sep /\ \A j \in 1..(i - 1) : s[j] # sep
         IN <<SubSeq(s, 1, k - 1)>> \o split(SubSeq(s, k + 1, Len(s)), sep)

RECURSIVE join(_, _)
\* sep.join(ss)
join(sep, ss) ==
    IF ss = <<>> THEN <<>>
    ELSE IF Len(ss) = 1 THEN Head(ss)
    ELSE Head(ss) \o sep \o join(sep, Tail(ss))

RECURSIVE rstrip(_)
\* s.rstrip()
rstrip(s) ==
    IF s # <<>> /\ s[Len(s)] \in Whitespace
    THEN rstrip(SubSeq(s, 1, Len(s) - 1))
    ELSE s

RECURSIVE lstrip(_, _)
\* s.lstrip(chars)
lstrip(s, chars) ==
    IF s # <<>> /\ Head(s) \in chars THEN lstrip(Tail(s), chars) ELSE s

\* s.strip()
strip(s) == lstrip(rstrip(s), Whitespace)

RECURSIVE replace(_, _, _)
\* s.replace(c, r) for a one-character c
replace(s, c, r) ==
    IF s = <<>> THEN <<>>
    ELSE (IF Head(s) = c THEN r ELSE <<Head(s)>>) \o replace(Tail(s), c, r)

\* Length of the run of character c that starts at position i of s.
RECURSIVE RunLen(_, _, _)
RunLen(s, i, c) ==
    IF i <= Len(s) /\ s[i] = c THEN 1 + RunLen(s, i + 1, c) ELSE 0

RECURSIVE CollapseFrom(_, _)
CollapseFrom(s, i) ==
    IF i > Len(s) THEN <<>>
    ELSE LET n == RunLen(s, i, NL)
         IN IF n >= 3
            THEN <<NL, NL>> \o CollapseFrom(s, i + n)
            ELSE <<s[i]>> \o CollapseFrom(s, i + 1)

\* As collapse_blank_lines, with the pattern \n{4,}.
collapse_from_four(s) ==
    LET RECURSIVE F(_)
        F(i) == IF i > Len(s) THEN <<>>
                ELSE LET n == RunLen(s, i, NL)
                     IN IF n >= 4 THEN <<NL, NL>> \o F(i + n)
                        ELSE <<s[i]>> \o F(i + 1)
    IN F(1)

\* re.sub(r'\n{3,}', '\n\n', s): every maximal run of three or more line
\* feeds (the quantifier is greedy) is replaced by two.
collapse_blank_lines(s) == CollapseFrom(s, 1)

---------------------------------------------------------------------------
(* The raw outline texts explored.                                         *)

\* "Title\n\tSection A\n\t\tFirst\n\t\tSecond\n"
ScenarioText ==
    <<"T","i","t","l","e",NL,
      TAB,"S","e","c","t","i","o","n"," ","A",NL,
      TAB,TAB,"F","i","r","s","t",NL,
      TAB,TAB,"S","e","c","o","n","d",NL>>

\* What follows the leading tabs of an explored line that has content.
Contents == { <<"a">>, <<"<", "*", " ">> }

\* An empty line and a line of whitespace only.
BlankLines == { <<>>, <<TAB, " ">> }

\* Every content at each tab count below MaxTabs, one content at MaxTabs.
RawLines ==
    { Repeat(<<TAB>>, k) \o c : k \in 0..(MaxTabs - 1), c \in Contents }
        \cup { Repeat(<<TAB>>, MaxTabs) \o <<"a">> }
        \cup BlankLines

RECURSIVE LineSeqs(_, _)
\* The sequences of one to n lines of the set ls.
LineSeqs(ls, n) ==
    IF n <= 1 THEN { <<l>> : l \in ls }
    ELSE LET shorter == LineSeqs(ls, n - 1)
         IN shorter \cup { Append(x, l) : x \in { y \in shorter : Len(y) = n - 1 },
                                          l \in ls }

Texts ==
    { join(<<NL>>, ls) : ls \in LineSeqs(RawLines, MaxLines) } \cup {ScenarioText}

\* Markdown lines of any origin: an indent of spaces and a body.
MdBodies ==
    { <<>>, <<"a">>, <<"*", " ", "a">>, <<"*", "*", "a", "*", "*">>,
      <<"#", " ", "a">>, <<"*", "a", "*">> }

MdLines == { Repeat(<<" ">>, k) \o b : k \in 0..MaxIndent, b \in MdBodies }

MdTexts == { join(<<NL>>, ls) : ls \in LineSeqs(MdLines, MaxMdLines) }

---------------------------------------------------------------------------
(* raw_to_markdown (src/TabNoteConverter.py:27-65).                        *)

\* len(line) - len(line.lstrip('\t'))
tab_count_of(line) == Len(line) - Len(lstrip(line, {TAB}))

\* stripped.lstrip('\t') with stripped = line.rstrip()
content_of(line) == lstrip(rstrip(line), {TAB})

\* '# {}'.format(content)
md_heading(content) == <<"#", " ">> \o content

\* '**{}**'.format(content)
md_section(content) == <<"*", "*">> \o content \o <<"*", "*">>

\* As md_bullet, with the indent '  ' * (tab_count - 1).
md_bullet_one_less(tab_count, content) ==
    Repeat(<<" ", " ">>, tab_count - 1) \o <<"*", " ">> \o content

\* indent = '  ' * (tab_count - 2); '{}* {}'.format(indent, content)
md_bullet(tab_count, content) ==
    Repeat(<<" ", " ">>, tab_count - 2) \o <<"*", " ">> \o content

\* As raw_to_markdown_line, without the blank line before a section.
raw_to_markdown_line_no_separator(line) ==
    IF rstrip(line) = <<>> THEN << <<>> >>
    ELSE IF tab_count_of(line) = 0 THEN << md_heading(content_of(line)) >>
    ELSE IF tab_count_of(line) = 1 THEN << md_section(content_of(line)) >>
    ELSE << md_bullet(tab_count_of(line), content_of(line)) >>

\* The lines one pass of the loop body appends to result.
raw_to_markdown_line(line) ==
    IF rstrip(line) = <<>> THEN << <<>> >>
    ELSE IF tab_count_of(line) = 0 THEN << md_heading(content_of(line)) >>
    ELSE IF tab_count_of(line) = 1 THEN << <<>>, md_section(content_of(line)) >>
    ELSE << md_bullet(tab_count_of(line), content_of(line)) >>

\* output = '\n'.join(result); output = re.sub(r'\n{3,}', '\n\n', output)
raw_to_markdown_output(res) == collapse_blank_lines(join(<<NL>>, res))

\* lines = text.split('\n'); result = []
MdBegin ==
    /\ pc = "start"
    /\ lines' = split(text, NL)
    /\ result' = <<>>
    /\ pc' = "md"
    /\ UNCHANGED <<text, entry, md_out, html_parts, current_depth, html_out, parts,
                   list_stack, div_open, first_heading, slack_out>>
    /\ UNCHANGED <<pickle_vars, cf_vars, clip_vars>>

\* One pass of the loop body.
MdStep ==
    /\ result' = result \o raw_to_markdown_line(Head(lines))
    /\ lines' = Tail(lines)
    /\ UNCHANGED <<pc, text, entry, md_out, html_parts, current_depth,
                   html_out, parts, list_stack, div_open, first_heading,
                   slack_out>>
    /\ UNCHANGED <<pickle_vars, cf_vars, clip_vars>>

\* if not stripped: result.append('')
MdBlank ==
    /\ pc = "md" /\ lines # <<>>
    /\ rstrip(Head(lines)) = <<>>
    /\ MdStep

\* tab_count == 0
MdHeading ==
    /\ pc = "md" /\ lines # <<>>
    /\ rstrip(Head(lines)) # <<>>
    /\ tab_count_of(Head(lines)) = 0
    /\ MdStep

\* tab_count == 1
MdSection ==
    /\ pc = "md" /\ lines # <<>>
    /\ rstrip(Head(lines)) # <<>>
    /\ tab_count_of(Head(lines)) = 1
    /\ MdStep

\* else: bullet
MdBullet ==
    /\ pc = "md" /\ lines # <<>>
    /\ rstrip(Head(lines)) # <<>>
    /\ tab_count_of(Head(lines)) >= 2
    /\ MdStep

\* the loop is over: collapse and return
MdReturn ==
    /\ pc = "md"
    /\ lines = <<>>
    /\ md_out' = raw_to_markdown_output(result)
    /\ pc' = "md_done"
    /\ UNCHANGED <<text, entry, lines, result, html_parts, current_depth, html_out,
                   parts, list_stack, div_open, first_heading, slack_out>>
    /\ UNCHANGED <<pickle_vars, cf_vars, clip_vars>>

---------------------------------------------------------------------------
(* markdown_to_html (src/TabNoteConverter.py:218-311).                     *)

\* A part of html_parts: tok names the template, level its number, text the
\* formatted content.
HtmlTok(tok, level, txt) == [tok |-> tok, level |-> level, text |-> txt]

\* _escape_html
escape_html(s) ==
    replace(replace(replace(replace(s,
        "&", <<"&", "a", "m", "p", ";">>),
        "<", <<"&", "l", "t", ";">>),
        ">", <<"&", "g", "t", ";">>),
        "\"", <<"&", "q", "u", "o", "t", ";">>)

\* Smallest j >= from with s[j..j+1] = c c, or 0.
RECURSIVE FindPair(_, _, _)
FindPair(s, from, c) ==
    IF from + 1 > Len(s) THEN 0
    ELSE IF s[from] = c /\ s[from + 1] = c THEN from
    ELSE FindPair(s, from + 1, c)

RECURSIVE SubBold(_, _)
SubBold(s, i) ==
    IF i > Len(s) THEN <<>>
    ELSE LET j == IF i + 1 <= Len(s) /\ s[i] = "*" /\ s[i + 1] = "*"
                  THEN FindPair(s, i + 3, "*") ELSE 0
         IN IF j # 0
            THEN <<"<strong>">> \o SubSeq(s, i + 2, j - 1) \o <<"</strong>">>
                 \o SubBold(s, j + 2)
            ELSE <<s[i]>> \o SubBold(s, i + 1)

\* A '*' at position i with no '*' right before or right after it.
LoneStar(s, i) ==
    /\ i >= 1 /\ i <= Len(s) /\ s[i] = "*"
    /\ (i = 1 \/ s[i - 1] # "*")
    /\ (i = Len(s) \/ s[i + 1] # "*")

RECURSIVE FindLoneStar(_, _)
FindLoneStar(s, from) ==
    IF from > Len(s) THEN 0
    ELSE IF LoneStar(s, from) THEN from
    ELSE FindLoneStar(s, from + 1)

RECURSIVE SubItalic(_, _)
SubItalic(s, i) ==
    IF i > Len(s) THEN <<>>
    ELSE LET j == IF LoneStar(s, i) THEN FindLoneStar(s, i + 2) ELSE 0
         IN IF j # 0
            THEN <<"<em>">> \o SubSeq(s, i + 1, j - 1) \o <<"</em>">>
                 \o SubItalic(s, j + 1)
            ELSE <<s[i]>> \o SubItalic(s, i + 1)

RECURSIVE FindChar(_, _, _)
FindChar(s, from, c) ==
    IF from > Len(s) THEN 0
    ELSE IF s[from] = c THEN from
    ELSE FindChar(s, from + 1, c)

\* The grave accent character (the delimiter of inline code), written as a
\* named atom.
BACKTICK == "GRAVE"

RECURSIVE SubCode(_, _)
SubCode(s, i) ==
    IF i > Len(s) THEN <<>>
    ELSE LET j == IF s[i] = BACKTICK THEN FindChar(s, i + 2, BACKTICK) ELSE 0
         IN IF j # 0
            THEN <<"<code>">> \o SubSeq(s, i + 1, j - 1) \o <<"</code>">>
                 \o SubCode(s, j + 1)
            ELSE <<s[i]>> \o SubCode(s, i + 1)

\* _inline_format: escape, then the bold, italic and code substitutions
\* (lazy groups, leftmost non-overlapping matches).
inline_format(s) == SubCode(SubItalic(SubBold(escape_html(s), 1), 1), 1)

\* Length of the run of whitespace that starts at position i of s.
RECURSIVE WsRun(_, _)
WsRun(s, i) ==
    IF i <= Len(s) /\ s[i] \in Whitespace THEN 1 + WsRun(s, i + 1) ELSE 0

\* The text matched by \s+(.+)$ from position i, as <<group>>, or <<>> when
\* there is no match: \s+ is greedy and gives one character back to (.+)
\* when nothing follows the whitespace.
WsThenText(s, i) ==
    LET w == WsRun(s, i)
    IN IF w = 0 THEN <<>>
       ELSE IF i + w <= Len(s) THEN << SubSeq(s, i + w, Len(s)) >>
       ELSE IF w >= 2 THEN << SubSeq(s, Len(s), Len(s)) >>
       ELSE <<>>

\* re.match(r'^(#{1,6})\s+(.+)$', stripped): <<level, text>> or <<>>
heading_match(stripped) ==
    LET n == RunLen(stripped, 1, "#")
    IN IF n < 1 \/ n > 6 \/ WsThenText(stripped, n + 1) = <<>> THEN <<>>
       ELSE <<n, WsThenText(stripped, n + 1)[1]>>

\* re.match(r'^\*\*(.+)\*\*$', stripped): <<text>> or <<>>
bold_match(stripped) ==
    LET n == Len(stripped)
    IN IF /\ n >= 5
          /\ stripped[1] = "*" /\ stripped[2] = "*"
          /\ stripped[n - 1] = "*" /\ stripped[n] = "*"
       THEN << SubSeq(stripped, 3, n - 2) >>
       ELSE <<>>

\* re.match(r'^(\s*)\*\s+(.+)$', line): <<len(group 1), text>> or <<>>
bullet_match(line) ==
    LET w == WsRun(line, 1)
    IN IF w + 1 <= Len(line) /\ line[w + 1] = "*"
          /\ WsThenText(line, w + 2) # <<>>
       THEN <<w, WsThenText(line, w + 2)[1]>>
       ELSE <<>>

\* for _ in range(current_depth): html_parts.append('</li></ul>')
close_lists(hp, depth) ==
    hp \o [i \in 1..depth |-> HtmlTok("close", 0, <<>>)]

\* As bullet_depth, without the + 1.
bullet_depth_zero_based(indent_spaces) == indent_spaces \div 2

\* depth = indent_spaces // 2 + 1
bullet_depth(indent_spaces) == (indent_spaces \div 2) + 1

\* As html_bullet, with no level closed on the way to a shallower bullet.
html_bullet_no_close(hp, cur, depth, content) ==
    IF depth > cur
    THEN LET opened == hp \o [i \in 1..(depth - cur) |-> HtmlTok("ul_li", 0, <<>>)]
         IN [opened EXCEPT ![Len(opened)] = HtmlTok("ul_li", 0, content)]
    ELSE Append(hp, HtmlTok("li_li", 0, content))

\* The bullet branch: html_parts after the line, for its depth and content.
html_bullet(hp, cur, depth, content) ==
    IF depth > cur
    THEN LET opened == hp \o [i \in 1..(depth - cur) |-> HtmlTok("ul_li", 0, <<>>)]
         IN [opened EXCEPT ![Len(opened)] = HtmlTok("ul_li", 0, content)]
    ELSE IF depth = cur
    THEN Append(hp, HtmlTok("li_li", 0, content))
    ELSE Append(close_lists(hp, cur - depth), HtmlTok("li_li", 0, content))

\* The string a part stands for.
html_part_text(t) ==
    CASE t.tok = "h" ->
           <<"<h", ToString(t.level), ">">> \o t.text
           \o <<"</h", ToString(t.level), ">">>
      [] t.tok = "p_strong" -> <<"<p><strong>">> \o t.text \o <<"</strong></p>">>
      [] t.tok = "p" -> <<"<p>">> \o t.text \o <<"</p>">>
      [] t.tok = "ul_li" -> <<"<ul><li>">> \o t.text
      [] t.tok = "li_li" -> <<"</li><li>">> \o t.text
      [] t.tok = "close" -> <<"</li></ul>">>

\* '\n'.join(html_parts)
markdown_to_html_output(hp) ==
    join(<<NL>>, [i \in 1..Len(hp) |-> html_part_text(hp[i])])

\* lines = md.split('\n'); html_parts = []; current_depth = 0
HtmlBegin ==
    /\ pc = "md_done"
    /\ lines' = split(md_out, NL)
    /\ html_parts' = <<>>
    /\ current_depth' = 0
    /\ pc' = "html"
    /\ UNCHANGED <<text, entry, result, md_out, html_out, parts, list_stack,
                   div_open, first_heading, slack_out>>
    /\ UNCHANGED <<pickle_vars, cf_vars, clip_vars>>

HtmlFrame ==
    /\ lines' = Tail(lines)
    /\ UNCHANGED <<pc, text, entry, result, md_out, html_out, parts, list_stack,
                   div_open, first_heading, slack_out>>
    /\ UNCHANGED <<pickle_vars, cf_vars, clip_vars>>

\* if not stripped: close the open lists
HtmlBlank ==
    /\ pc = "html" /\ lines # <<>>
    /\ strip(Head(lines)) = <<>>
    /\ html_parts' = close_lists(html_parts, current_depth)
    /\ current_depth' = 0
    /\ HtmlFrame

\* if heading_match
HtmlHeading ==
    /\ pc = "html" /\ lines # <<>>
    /\ LET stripped == strip(Head(lines))
           m == heading_match(stripped)
       IN /\ stripped # <<>>
          /\ m # <<>>
          /\ html_parts' = Append(close_lists(html_parts, current_depth),
                                  HtmlTok("h", m[1], inline_format(m[2])))
    /\ current_depth' = 0
    /\ HtmlFrame

\* if bold_match
HtmlSection ==
    /\ pc = "html" /\ lines # <<>>
    /\ LET stripped == strip(Head(lines))
           m == bold_match(stripped)
       IN /\ stripped # <<>>
          /\ heading_match(stripped) = <<>>
          /\ m # <<>>
          /\ html_parts' = Append(close_lists(html_parts, current_depth),
                                  HtmlTok("p_strong", 0, escape_html(m[1])))
    /\ current_depth' = 0
    /\ HtmlFrame

\* if bullet_match
HtmlBullet ==
    /\ pc = "html" /\ lines # <<>>
    /\ LET stripped == strip(Head(lines))
           m == bullet_match(Head(lines))
       IN /\ stripped # <<>>
          /\ heading_match(stripped) = <<>>
          /\ bold_match(stripped) = <<>>
          /\ m # <<>>
          /\ html_parts' = html_bullet(html_parts, current_depth,
                                       bullet_depth(m[1]), inline_format(m[2]))
          /\ current_depth' = bullet_depth(m[1])
    /\ HtmlFrame

\* Fallback: plain paragraph
HtmlParagraph ==
    /\ pc = "html" /\ lines # <<>>
    /\ LET stripped == strip(Head(lines))
       IN /\ stripped # <<>>
          /\ heading_match(stripped) = <<>>
          /\ bold_match(stripped) = <<>>
          /\ bullet_match(Head(lines)) = <<>>
          /\ html_parts' = Append(close_lists(html_parts, current_depth),
                                  HtmlTok("p", 0, inline_format(stripped)))
    /\ current_depth' = 0
    /\ HtmlFrame

\* the loop is over: close the remaining lists and return
HtmlReturn ==
    /\ pc = "html"
    /\ lines = <<>>
    /\ html_parts' = close_lists(html_parts, current_depth)
    /\ html_out' = markdown_to_html_output(html_parts')
    /\ pc' = "html_done"
    /\ UNCHANGED <<text, entry, lines, result, md_out, current_depth, parts,
                   list_stack, div_open, first_heading, slack_out>>
    /\ UNCHANGED <<pickle_vars, cf_vars, clip_vars>>

---------------------------------------------------------------------------
(* raw_to_slack_html (src/TabNoteConverter.py:76-209).                     *)

\* A part of parts: tok names the template, indent its number, text the
\* content that follows the template in the same part.
SlackTok(tok, indent, txt) == [tok |-> tok, indent |-> indent, text |-> txt]

SLACK_META == SlackTok("meta", 0, <<>>)
SLACK_DIV_OPEN == SlackTok("div_open", 0, <<>>)
SLACK_DIV_CLOSE == SlackTok("div_close", 0, <<>>)
SLACK_BR == SlackTok("br", 0, <<>>)
SLACK_PARA_BREAK == SlackTok("para_break", 0, <<>>)
\* _SLACK_BOLD.format(content)
SLACK_BOLD(content) == SlackTok("bold", 0, content)
\* _slack_ul_open(indent)
slack_ul_open(indent) == SlackTok("ul_open", indent, <<>>)
\* _slack_li_open(indent) + content
slack_li_open(indent, content) == SlackTok("li_open", indent, content)
\* '</li>'
LI_CLOSE == SlackTok("li_close", 0, <<>>)
\* '</li></ul>'
LI_UL_CLOSE == SlackTok("li_ul_close", 0, <<>>)

\* _slack_escape
slack_escape(s) ==
    replace(replace(replace(s,
        "&", <<"&", "a", "m", "p", ";">>),
        "<", <<"&", "l", "t", ";">>),
        ">", <<"&", "g", "t", ";">>)

Lower == <<"a","b","c","d","e","f","g","h","i","j","k","l","m",
           "n","o","p","q","r","s","t","u","v","w","x","y","z">>
Upper == <<"A","B","C","D","E","F","G","H","I","J","K","L","M",
           "N","O","P","Q","R","S","T","U","V","W","X","Y","Z">>

\* str.upper()
upper(s) ==
    [i \in 1..Len(s) |->
        IF \E k \in 1..26 : Lower[k] = s[i]
        THEN Upper[CHOOSE k \in 1..26 : Lower[k] = s[i]]
        ELSE s[i]]

\* As close_all_lists, with one close token whatever the stack holds.
close_all_lists_once(p, st) == Append(p, LI_UL_CLOSE)

\* _close_all_lists: one '</li></ul>' per entry of list_stack
close_all_lists(p, st) == p \o [i \in 1..Len(st) |-> LI_UL_CLOSE]

\* _ensure_div
ensure_div(p, d) == IF ~d THEN Append(p, SLACK_DIV_OPEN) ELSE p

\* As close_div, with the test inverted.
close_div_inverted(p, d) == IF ~d THEN Append(p, SLACK_DIV_CLOSE) ELSE p

\* _close_div
close_div(p, d) == IF d THEN Append(p, SLACK_DIV_CLOSE) ELSE p

\* tab_count == 0, after the lists are closed: the parts
slack_heading(p, d, first, content) ==
    LET q == IF ~d /\ ~first
             THEN Append(ensure_div(p, d), SLACK_PARA_BREAK)
             ELSE ensure_div(p, d)
    IN Append(q, SLACK_BOLD(upper(content)))

\* tab_count == 1, after the lists are closed: the parts
slack_section(p, d, content) ==
    close_div(ensure_div(p, d) \o
              <<SLACK_PARA_BREAK, SLACK_BOLD(content), SLACK_BR>>, TRUE)

\* if not list_stack: start the first list
slack_first(p, st, depth, content) ==
    [parts |-> p \o <<slack_ul_open(depth), slack_li_open(depth, content)>>,
     list_stack |-> Append(st, depth)]

RECURSIVE slack_deeper_text_everywhere(_, _, _, _)
\* As slack_deeper, with the content in the item of every level opened.
slack_deeper_text_everywhere(p, st, depth, content) ==
    IF depth > st[Len(st)]
    THEN LET next_depth == st[Len(st)] + 1
         IN slack_deeper_text_everywhere(
                p \o <<slack_ul_open(next_depth),
                       slack_li_open(next_depth, content)>>,
                Append(st, next_depth), depth, content)
    ELSE [parts |-> p, list_stack |-> st]

RECURSIVE slack_deeper(_, _, _, _)
\* while depth > list_stack[-1]: open the next level
slack_deeper(p, st, depth, content) ==
    IF depth > st[Len(st)]
    THEN LET next_depth == st[Len(st)] + 1
             li == IF next_depth = depth
                   THEN slack_li_open(depth, content)
                   ELSE slack_li_open(next_depth, <<>>)
         IN slack_deeper(p \o <<slack_ul_open(next_depth), li>>,
                         Append(st, next_depth), depth, content)
    ELSE [parts |-> p, list_stack |-> st]

\* As slack_same, with a list opened for the sibling.
slack_same_new_list(p, st, depth, content) ==
    [parts |-> p \o <<LI_CLOSE, slack_ul_open(depth),
                      slack_li_open(depth, content)>>,
     list_stack |-> st]

\* depth == list_stack[-1]
slack_same(p, st, depth, content) ==
    [parts |-> p \o <<LI_CLOSE, slack_li_open(depth, content)>>,
     list_stack |-> st]

RECURSIVE slack_pop(_, _, _)
\* while list_stack and list_stack[-1] > depth: close and pop
slack_pop(p, st, depth) ==
    IF st # <<>> /\ st[Len(st)] > depth
    THEN slack_pop(Append(p, LI_UL_CLOSE), SubSeq(st, 1, Len(st) - 1), depth)
    ELSE [parts |-> p, list_stack |-> st]

\* going shallower
slack_shallower(p, st, depth, content) ==
    LET r == slack_pop(p, st, depth)
    IN [parts |-> r.parts \o <<LI_CLOSE, slack_li_open(depth, content)>>,
        list_stack |-> r.list_stack]

\* The string a part stands for.
slack_part_text(t) ==
    CASE t.tok = "meta" -> <<"<meta charset=\"utf-8\">">>
      [] t.tok = "div_open" -> <<"<div class=\"p-rich_text_section\">">>
      [] t.tok = "div_close" -> <<"</div>">>
      [] t.tok = "bold" ->
           <<"<b data-stringify-type=\"bold\">">> \o t.text \o <<"</b>">>
      [] t.tok = "br" -> <<"<br aria-hidden=\"true\">">>
      [] t.tok = "para_break" ->
           <<"<span aria-label=\"&nbsp;\" class=\"c-mrkdwn__br\" data-stringify-type=\"paragraph-break\"></span>">>
      [] t.tok = "ul_open" ->
           <<"<ul data-stringify-type=\"unordered-list\" data-list-tree=\"true\" class=\"p-rich_text_list p-rich_text_list__bullet p-rich_text_list--nested\" data-indent=\"",
             ToString(t.indent), "\" data-border=\"0\">">>
      [] t.tok = "li_open" ->
           <<"<li data-stringify-indent=\"", ToString(t.indent),
             "\" data-stringify-border=\"0\">">> \o t.text
      [] t.tok = "li_close" -> <<"</li>">>
      [] t.tok = "li_ul_close" -> <<"</li></ul>">>

\* ''.join(parts)
raw_to_slack_html_output(p) ==
    Concat([i \in 1..Len(p) |-> slack_part_text(p[i])])

\* lines = text.split('\n'); parts = [_SLACK_META]; list_stack = [];
\* div_open = False; first_heading = True
SlackBegin ==
    /\ pc = "html_done"
    /\ entry = "raw"
    /\ lines' = split(text, NL)
    /\ parts' = <<SLACK_META>>
    /\ list_stack' = <<>>
    /\ div_open' = FALSE
    /\ first_heading' = TRUE
    /\ pc' = "slack"
    /\ UNCHANGED <<text, entry, result, md_out, html_parts, current_depth, html_out,
                   slack_out>>
    /\ UNCHANGED <<pickle_vars, cf_vars, clip_vars>>

SlackFrame ==
    /\ lines' = Tail(lines)
    /\ UNCHANGED <<pc, text, entry, result, md_out, html_parts, current_depth,
                   html_out, slack_out>>
    /\ UNCHANGED <<pickle_vars, cf_vars, clip_vars>>

\* As SlackBlank, with the open block closed too.
SlackBlankClosesDiv ==
    /\ pc = "slack" /\ lines # <<>>
    /\ rstrip(Head(lines)) = <<>>
    /\ parts' = close_div(close_all_lists(parts, list_stack), div_open)
    /\ list_stack' = <<>>
    /\ div_open' = FALSE
    /\ UNCHANGED first_heading
    /\ SlackFrame

\* if not stripped: _close_all_lists()
SlackBlank ==
    /\ pc = "slack" /\ lines # <<>>
    /\ rstrip(Head(lines)) = <<>>
    /\ parts' = close_all_lists(parts, list_stack)
    /\ list_stack' = <<>>
    /\ UNCHANGED <<div_open, first_heading>>
    /\ SlackFrame

\* tab_count == 0
SlackHeading ==
    /\ pc = "slack" /\ lines # <<>>
    /\ rstrip(Head(lines)) # <<>>
    /\ tab_count_of(Head(lines)) = 0
    /\ parts' = slack_heading(close_all_lists(parts, list_stack), div_open,
                              first_heading,
                              slack_escape(content_of(Head(lines))))
    /\ list_stack' = <<>>
    /\ div_open' = TRUE
    /\ first_heading' = FALSE
    /\ SlackFrame

\* tab_count == 1
SlackSection ==
    /\ pc = "slack" /\ lines # <<>>
    /\ rstrip(Head(lines)) # <<>>
    /\ tab_count_of(Head(lines)) = 1
    /\ parts' = slack_section(close_all_lists(parts, list_stack), div_open,
                              slack_escape(content_of(Head(lines))))
    /\ list_stack' = <<>>
    /\ div_open' = FALSE
    /\ UNCHANGED first_heading
    /\ SlackFrame

\* The bullet branch chosen by list_stack, after the block is closed.
slack_bullet(p, st, depth, content) ==
    IF st = <<>> THEN slack_first(p, st, depth, content)
    ELSE IF depth > st[Len(st)] THEN slack_deeper(p, st, depth, content)
    ELSE IF depth = st[Len(st)] THEN slack_same(p, st, depth, content)
    ELSE slack_shallower(p, st, depth, content)

\* depth = tab_count - 2
slack_depth(line) == tab_count_of(line) - 2

\* As SlackBulletStep, with the open block left open.
SlackBulletStepKeepsDiv ==
    /\ LET r == slack_bullet(parts, list_stack,
                             slack_depth(Head(lines)),
                             slack_escape(content_of(Head(lines))))
       IN /\ parts' = r.parts
          /\ list_stack' = r.list_stack
    /\ UNCHANGED <<div_open, first_heading>>
    /\ SlackFrame

\* A bullet line: if div_open: _close_div(); then the branch.
SlackBulletStep ==
    /\ LET r == slack_bullet(close_div(parts, div_open), list_stack,
                             slack_depth(Head(lines)),
                             slack_escape(content_of(Head(lines))))
       IN /\ parts' = r.parts
          /\ list_stack' = r.list_stack
    /\ div_open' = FALSE
    /\ UNCHANGED first_heading
    /\ SlackFrame

IsBullet ==
    /\ pc = "slack" /\ lines # <<>>
    /\ rstrip(Head(lines)) # <<>>
    /\ tab_count_of(Head(lines)) >= 2

\* if not list_stack
SlackBulletFirst ==
    /\ IsBullet
    /\ list_stack = <<>>
    /\ SlackBulletStep

\* elif depth > list_stack[-1]
SlackBulletDeeper ==
    /\ IsBullet
    /\ list_stack # <<>>
    /\ slack_depth(Head(lines)) > list_stack[Len(list_stack)]
    /\ SlackBulletStep

\* elif depth == list_stack[-1]
SlackBulletSame ==
    /\ IsBullet
    /\ list_stack # <<>>
    /\ slack_depth(Head(lines)) = list_stack[Len(list_stack)]
    /\ SlackBulletStep

\* else
SlackBulletShallower ==
    /\ IsBullet
    /\ list_stack # <<>>
    /\ slack_depth(Head(lines)) < list_stack[Len(list_stack)]
    /\ SlackBulletStep

\* the loop is over: _close_all_lists(); _close_div(); return ''.join(parts)
SlackReturn ==
    /\ pc = "slack"
    /\ lines = <<>>
    /\ parts' = close_div(close_all_lists(parts, list_stack), div_open)
    /\ list_stack' = <<>>
    /\ div_open' = FALSE
    /\ slack_out' = raw_to_slack_html_output(parts')
    /\ pc' = "done"
    /\ UNCHANGED <<text, entry, lines, result, md_out, html_parts, current_depth,
                   html_out, first_heading>>
    /\ UNCHANGED <<pickle_vars, cf_vars, clip_vars>>

---------------------------------------------------------------------------
(* Bytes and codecs: str.encode('utf-8'), str.encode('utf-16-le'),         *)
(* bytes.decode('utf-16-le'), struct.pack('<I'), struct.unpack_from('<I'). *)

\* One code point per UTF-8 length (1, 2, 3 and 4 bytes): 'A', e acute, the
\* euro sign and an emoji outside the basic multilingual plane.
CodePoints == {65, 233, 8364, 128512}

\* Strings of at most n code points of cs.
Strs(cs, n) == UNION { [1..k -> cs] : k \in 0..n }

utf8_char(cp) ==
    IF cp < 128 THEN <<cp>>
    ELSE IF cp < 2048 THEN <<192 + (cp \div 64), 128 + (cp % 64)>>
    ELSE IF cp < 65536
    THEN <<224 + (cp \div 4096), 128 + ((cp \div 64) % 64), 128 + (cp % 64)>>
    ELSE <<240 + (cp \div 262144), 128 + ((cp \div 4096) % 64),
           128 + ((cp \div 64) % 64), 128 + (cp % 64)>>

\* s.encode('utf-8')
encode_utf8(s) == Concat([i \in 1..Len(s) |-> utf8_char(s[i])])

\* A 16-bit code unit, low byte first.
unit_le(u) == <<u % 256, u \div 256>>

utf16le_char(cp) ==
    IF cp < 65536 THEN unit_le(cp)
    ELSE unit_le(55296 + ((cp - 65536) \div 1024))
         \o unit_le(56320 + ((cp - 65536) % 1024))

\* s.encode('utf-16-le')
encode_utf16le(s) == Concat([i \in 1..Len(s) |-> utf16le_char(s[i])])

IsHighSurrogate(u) == u >= 55296 /\ u <= 56319
IsLowSurrogate(u) == u >= 56320 /\ u <= 57343

RECURSIVE decode_units(_)
\* The code points of a sequence of UTF-16 code units, as [ok, str]; a
\* surrogate without its partner is an error.
decode_units(us) ==
    IF us = <<>> THEN [ok |-> TRUE, str |-> <<>>]
    ELSE IF IsHighSurrogate(us[1])
    THEN IF Len(us) >= 2 /\ IsLowSurrogate(us[2])
         THEN LET r == decode_units(SubSeq(us, 3, Len(us)))
                  cp == 65536 + (us[1] - 55296) * 1024 + (us[2] - 56320)
              IN [ok |-> r.ok, str |-> <<cp>> \o r.str]
         ELSE [ok |-> FALSE, str |-> <<>>]
    ELSE IF IsLowSurrogate(us[1]) THEN [ok |-> FALSE, str |-> <<>>]
    ELSE LET r == decode_units(Tail(us))
         IN [ok |-> r.ok, str |-> <<us[1]>> \o r.str]

\* b.decode('utf-16-le'): UnicodeDecodeError (ok = FALSE) on an odd number of
\* bytes or an unpaired surrogate.
decode_utf16le(b) ==
    IF Len(b) % 2 # 0 THEN [ok |-> FALSE, str |-> <<>>]
    ELSE decode_units([i \in 1..(Len(b) \div 2) |-> b[2 * i - 1] + 256 * b[2 * i]])

\* struct.pack('<I', n)
pack_u32(n) ==
    <<n % 256, (n \div 256) % 256, (n \div 65536) % 256,
      (n \div 16777216) % 256>>

\* struct.unpack_from('<I', data, off)[0], for off + 4 <= len(data). A value
\* of 65536 or more is beyond the end of every buffer explored: it is kept
\* as 65536 plus its low 16 bits, which stays beyond the end and keeps the
\* value modulo 4 that the padding is computed from.
unpack_u32(data, off) ==
    data[off + 1] + 256 * data[off + 2]
    + (IF data[off + 3] = 0 /\ data[off + 4] = 0 THEN 0 ELSE 65536)

\* data[from:to]
slice(data, from, to) ==
    SubSeq(data, from + 1, IF to > Len(data) THEN Len(data) ELSE to)

---------------------------------------------------------------------------
(* _build_cf_html (src/TabNoteConverter.py:318-344).                       *)

MaxFragLen == 3

RECURSIVE Digits(_)
\* The decimal digits of n >= 0, as code points.
Digits(n) == IF n < 10 THEN <<48 + n>> ELSE Digits(n \div 10) \o <<48 + (n % 10)>>

\* '{:010d}' applied to an int given by its decimal digits: zero-padded to
\* a width of at least ten, wider when the int has more digits
format_010d_numeral(ds) == [i \in 1..(10 - Len(ds)) |-> 48] \o ds

\* '{:010d}'.format(n)
format_010d(n) == format_010d_numeral(Digits(n))

CRLF == <<13, 10>>
\* "Version:0.9\r\n"
VersionLine == <<86, 101, 114, 115, 105, 111, 110, 58, 48, 46, 57, 13, 10>>
\* "StartHTML:"
StartHTMLLabel == <<83, 116, 97, 114, 116, 72, 84, 77, 76, 58>>
\* "EndHTML:"
EndHTMLLabel == <<69, 110, 100, 72, 84, 77, 76, 58>>
\* "StartFragment:"
StartFragmentLabel ==
    <<83, 116, 97, 114, 116, 70, 114, 97, 103, 109, 101, 110, 116, 58>>
\* "EndFragment:"
EndFragmentLabel == <<69, 110, 100, 70, 114, 97, 103, 109, 101, 110, 116, 58>>

\* header_template.format(...) for ints given by their decimal digits
header_template_numerals(sh, eh, sf, ef) ==
    VersionLine
    \o StartHTMLLabel \o format_010d_numeral(sh) \o CRLF
    \o EndHTMLLabel \o format_010d_numeral(eh) \o CRLF
    \o StartFragmentLabel \o format_010d_numeral(sf) \o CRLF
    \o EndFragmentLabel \o format_010d_numeral(ef) \o CRLF

\* header_template.format(start_html, end_html, start_fragment, end_fragment)
header_template_format(sh, eh, sf, ef) ==
    header_template_numerals(Digits(sh), Digits(eh), Digits(sf), Digits(ef))

\* "<html><body>\r\n<!--StartFragment-->"
cf_prefix ==
    <<60, 104, 116, 109, 108, 62, 60, 98, 111, 100, 121, 62, 13, 10, 60, 33,
      45, 45, 83, 116, 97, 114, 116, 70, 114, 97, 103, 109, 101, 110, 116,
      45, 45, 62>>

\* "<!--EndFragment-->\r\n</body></html>"
cf_suffix ==
    <<60, 33, 45, 45, 69, 110, 100, 70, 114, 97, 103, 109, 101, 110, 116, 45,
      45, 62, 13, 10, 60, 47, 98, 111, 100, 121, 62, 60, 47, 104, 116, 109,
      108, 62>>

\* As cf_offsets, with len(html_fragment) in place of the encoded length.
cf_offsets_by_chars(frag) ==
    LET header_len == Len(encode_utf8(header_template_format(0, 0, 0, 0)))
        start_html == header_len
        start_fragment == start_html + Len(encode_utf8(cf_prefix))
        end_fragment == start_fragment + Len(frag)
        end_html == end_fragment + Len(encode_utf8(cf_suffix))
    IN [start_html |-> start_html, end_html |-> end_html,
        start_fragment |-> start_fragment, end_fragment |-> end_fragment]

\* header_len, start_html, start_fragment, end_fragment, end_html
cf_offsets(frag) ==
    LET header_len == Len(encode_utf8(header_template_format(0, 0, 0, 0)))
        start_html == header_len
        start_fragment == start_html + Len(encode_utf8(cf_prefix))
        end_fragment == start_fragment + Len(encode_utf8(frag))
        end_html == end_fragment + Len(encode_utf8(cf_suffix))
    IN [start_html |-> start_html, end_html |-> end_html,
        start_fragment |-> start_fragment, end_fragment |-> end_fragment]

\* header + prefix + html_fragment + suffix
cf_payload(off, frag) ==
    header_template_format(off.start_html, off.end_html, off.start_fragment,
                           off.end_fragment)
    \o cf_prefix \o frag \o cf_suffix

\* Calculate byte offsets
CfOffsets ==
    /\ pc = "cf_start"
    /\ offsets' = cf_offsets(html_fragment)
    /\ pc' = "cf_offsets"
    /\ UNCHANGED <<html_fragment, cf_out>>
    /\ UNCHANGED <<text, entry, lines, result, md_out, html_parts,
                   current_depth, html_out, parts, list_stack, div_open,
                   first_heading, slack_out>>
    /\ UNCHANGED <<pickle_vars, clip_vars>>

\* header = header_template.format(...); return
CfReturn ==
    /\ pc = "cf_offsets"
    /\ cf_out' = cf_payload(offsets, html_fragment)
    /\ pc' = "cf_done"
    /\ UNCHANGED <<html_fragment, offsets>>
    /\ UNCHANGED <<text, entry, lines, result, md_out, html_parts,
                   current_depth, html_out, parts, list_stack, div_open,
                   first_heading, slack_out>>
    /\ UNCHANGED <<pickle_vars, clip_vars>>

\* _build_cf_html for a fragment of any length. A Python int has no upper
\* limit and neither has the length of a str: a length is kept here as its
\* decimal numeral (the code points of its digits), and a long fragment as
\* the number of its characters, all of them ASCII.
MaxLenDigits == 11

RECURSIVE int_add(_, _, _)
\* a + b + carry on decimal numerals
int_add(a, b, carry) ==
    IF a = <<>> /\ b = <<>>
    THEN IF carry = 0 THEN <<>> ELSE <<48 + carry>>
    ELSE LET da == IF a = <<>> THEN 0 ELSE a[Len(a)] - 48
             db == IF b = <<>> THEN 0 ELSE b[Len(b)] - 48
             sum == da + db + carry
         IN int_add(SubSeq(a, 1, Len(a) - 1), SubSeq(b, 1, Len(b) - 1),
                    sum \div 10)
            \o <<48 + (sum % 10)>>

\* A leading digit 1..9 followed by up to MaxLenDigits - 1 digits, all 0 or
\* all 9.
LongLengths ==
    { <<48 + d>> \o [i \in 1..z |-> c] :
        d \in 1..9, z \in 0..(MaxLenDigits - 1), c \in {48, 57} }

LongFragments == { [ascii_len |-> n] : n \in LongLengths }

\* header_len, start_html, start_fragment, end_fragment, end_html for a
\* long fragment: len(html_fragment.encode('utf-8')) is its ascii_len
cf_offsets_long(frag) ==
    LET header_len == Digits(Len(encode_utf8(header_template_format(0, 0, 0, 0))))
        start_html == header_len
        start_fragment == int_add(start_html, Digits(Len(encode_utf8(cf_prefix))), 0)
        end_fragment == int_add(start_fragment, frag.ascii_len, 0)
        end_html == int_add(end_fragment, Digits(Len(encode_utf8(cf_suffix))), 0)
    IN [start_html |-> start_html, end_html |-> end_html,
        start_fragment |-> start_fragment, end_fragment |-> end_fragment]

\* header + prefix + html_fragment + suffix, kept as its four pieces
cf_payload_long(off, frag) ==
    [header |-> header_template_numerals(off.start_html, off.end_html,
                                         off.start_fragment, off.end_fragment),
     prefix |-> cf_prefix, fragment |-> frag, suffix |-> cf_suffix]

\* Calculate byte offsets
CfLongOffsets ==
    /\ pc = "cfl_start"
    /\ offsets' = cf_offsets_long(html_fragment)
    /\ pc' = "cfl_offsets"
    /\ UNCHANGED <<html_fragment, cf_out>>
    /\ UNCHANGED <<text, entry, lines, result, md_out, html_parts,
                   current_depth, html_out, parts, list_stack, div_open,
                   first_heading, slack_out>>
    /\ UNCHANGED <<pickle_vars, clip_vars>>

\* header = header_template.format(...); return
CfLongReturn ==
    /\ pc = "cfl_offsets"
    /\ cf_out' = cf_payload_long(offsets, html_fragment)
    /\ pc' = "cfl_done"
    /\ UNCHANGED <<html_fragment, offsets>>
    /\ UNCHANGED <<text, entry, lines, result, md_out, html_parts,
                   current_depth, html_out, parts, list_stack, div_open,
                   first_heading, slack_out>>
    /\ UNCHANGED <<pickle_vars, clip_vars>>

---------------------------------------------------------------------------
(* _build_chromium_custom_mime (src/TabNoteConverter.py:351-395) and       *)
(* decode_chromium_pickle (src/tools/clipboard_inspect_v2.py:39-79).       *)

MaxStrLen == 1
MaxEntries == 2

\* A character of the basic multilingual plane and one outside it.
PickleChars == {65, 128512}

\* The MIME type strings explored: the empty one and one of each character.
MimeTypes == { <<>> } \cup { <<c>> : c \in PickleChars }

\* The (mime_type, content) pairs explored.
EntryPairs ==
    { <<m, c>> : m \in MimeTypes, c \in Strs(PickleChars, MaxStrLen) }

EntryLists == UNION { [1..n -> EntryPairs] : n \in 0..MaxEntries }

\* As pickle_write_string16, without the padding.
pickle_write_string16_unpadded(pp, txt) ==
    pp \o <<pack_u32(Len(txt)), encode_utf16le(txt)>>

\* _pickle_write_string16(parts, text)
pickle_write_string16(pp, txt) ==
    LET encoded == encode_utf16le(txt)
        char_count == Len(txt)
        remainder == Len(encoded) % 4
    IN pp \o <<pack_u32(char_count), encoded>>
          \o (IF remainder # 0
              THEN << [i \in 1..(4 - remainder) |-> 0] >>
              ELSE <<>>)

\* As pickle_write_entry, content first.
pickle_write_entry_swapped(pp, e) ==
    pickle_write_string16(pickle_write_string16(pp, e[2]), e[1])

\* One pass of the loop over entries: the MIME type, then the content.
pickle_write_entry(pp, e) ==
    pickle_write_string16(pickle_write_string16(pp, e[1]), e[2])

\* payload = b''.join(payload_parts); struct.pack('<I', len(payload)) + payload
pickle_buffer(pp) == pack_u32(Len(Concat(pp))) \o Concat(pp)

PickleFrame ==
    /\ UNCHANGED <<text, entry, lines, result, md_out, html_parts,
                   current_depth, html_out, parts, list_stack, div_open,
                   first_heading, slack_out>>
    /\ UNCHANGED <<cf_vars, clip_vars>>

\* payload_parts = [struct.pack('<I', len(entries))]
PickleBegin ==
    /\ pc = "pickle_start"
    /\ payload_parts' = <<pack_u32(Len(entries))>>
    /\ todo' = entries
    /\ pc' = "pickle_loop"
    /\ UNCHANGED <<entries, pickle_out, offset, num_entries, decoded>>
    /\ PickleFrame

\* for mime_type, content in entries
PickleEntry ==
    /\ pc = "pickle_loop"
    /\ todo # <<>>
    /\ payload_parts' = pickle_write_entry(payload_parts, Head(todo))
    /\ todo' = Tail(todo)
    /\ UNCHANGED <<pc, entries, pickle_out, offset, num_entries, decoded>>
    /\ PickleFrame

\* Prepend the payload size header and return
PickleReturn ==
    /\ pc = "pickle_loop"
    /\ todo = <<>>
    /\ pickle_out' = pickle_buffer(payload_parts)
    /\ pc' = "pickle_done"
    /\ UNCHANGED <<entries, todo, payload_parts, offset, num_entries, decoded>>
    /\ PickleFrame

\* One string read by the decoder at off: the count, count * 2 bytes decoded
\* as UTF-16LE, the padding skipped. ok is FALSE when unpack_from or decode
\* raises.
dec_read_string(data, off) ==
    IF off + 4 > Len(data) THEN [ok |-> FALSE, str |-> <<>>, offset |-> off]
    ELSE LET char_count == unpack_u32(data, off)
             d == decode_utf16le(slice(data, off + 4, off + 4 + char_count * 2))
             after == off + 4 + char_count * 2
             pad == IF (char_count * 2) % 4 # 0
                    THEN 4 - ((char_count * 2) % 4) ELSE 0
         IN [ok |-> d.ok, str |-> d.str, offset |-> after + pad]

\* payload_size and num_entries
DecHeader ==
    /\ pc = "pickle_done"
    /\ Len(pickle_out) >= 8
    /\ num_entries' = unpack_u32(pickle_out, 4)
    /\ offset' = 8
    /\ decoded' = <<>>
    /\ pc' = "dec_loop"
    /\ UNCHANGED <<entries, todo, payload_parts, pickle_out>>
    /\ PickleFrame

\* for i in range(num_entries): the MIME type and the content are read
DecEntry ==
    /\ pc = "dec_loop"
    /\ Len(decoded) < num_entries
    /\ LET m == dec_read_string(pickle_out, offset)
           c == dec_read_string(pickle_out, m.offset)
       IN /\ m.ok /\ c.ok
          /\ decoded' = Append(decoded, <<m.str, c.str>>)
          /\ offset' = c.offset
    /\ UNCHANGED <<pc, entries, todo, payload_parts, pickle_out, num_entries>>
    /\ PickleFrame

\* for i in range(num_entries): unpack_from or decode raises
DecEntryRaises ==
    /\ pc = "dec_loop"
    /\ Len(decoded) < num_entries
    /\ LET m == dec_read_string(pickle_out, offset)
       IN ~m.ok \/ ~dec_read_string(pickle_out, m.offset).ok
    /\ pc' = "dec_error"
    /\ UNCHANGED <<entries, todo, payload_parts, pickle_out, offset,
                   num_entries, decoded>>
    /\ PickleFrame

\* return offset
DecReturn ==
    /\ pc = "dec_loop"
    /\ Len(decoded) >= num_entries
    /\ pc' = "dec_done"
    /\ UNCHANGED <<entries, todo, payload_parts, pickle_out, offset,
                   num_entries, decoded>>
    /\ PickleFrame

---------------------------------------------------------------------------
(* The commands and the clipboard (src/TabNoteConverter.py:422-639).       *)
(* A clipboard payload is named by the builder that made its bytes and the *)
(* value the builder was given.                                            *)

\* The raw texts the commands are run on: the empty text and an outline
\* with a heading, a section, bullets going deeper, staying, going
\* shallower, and a last empty line.
ClipTexts ==
    { <<>>,
      <<"H", "'", NL,
        TAB, "S", NL,
        TAB, TAB, "a", NL,
        TAB, TAB, TAB, "b", NL,
        TAB, TAB, TAB, "c", NL,
        TAB, TAB, "d", NL>> }

Platforms == {"win32", "linux"}

\* No payload: a format absent from the clipboard, or the argument None.
None == [kind |-> "none", arg |-> <<>>]

\* A str placed as Unicode text.
UnicodeText(t) == [kind |-> "text", arg |-> t]

\* _build_cf_html(html).encode('utf-8')
CfHtml(h) == [kind |-> "cf_html", arg |-> h]

\* _build_chromium_custom_mime(entries)
ChromiumPickle(es) == [kind |-> "pickle", arg |-> es]

\* 'slack/html'
SLACK_HTML_MIME == <<"s", "l", "a", "c", "k", "/", "h", "t", "m", "l">>

\* A clipboard without any format: the state EmptyClipboard leaves.
EmptiedClipboard == [html |-> None, text |-> None, chromium |-> None]

\* sublime.set_clipboard(t): the text t as the only format
set_clipboard(t) == [html |-> None, text |-> UnicodeText(t), chromium |-> None]

\* _normalize_output
normalize_output(t) == strip(t) \o <<NL>>

\* plain_text.replace("'", "''")
ps_quote(t) == replace(t, "'", <<"'", "'">>)

RECURSIVE ps_parse(_)
\* The value PowerShell gives a single-quoted string literal with the body
\* q: two quotes stand for one.
ps_parse(q) ==
    IF q = <<>> THEN <<>>
    ELSE IF Len(q) >= 2 /\ q[1] = "'" /\ q[2] = "'"
    THEN <<"'">> \o ps_parse(SubSeq(q, 3, Len(q)))
    ELSE <<Head(q)>> \o ps_parse(Tail(q))

\* As ps_placement, with the custom-MIME data placed too.
ps_placement_with_chromium(h, t, c) ==
    [html |-> CfHtml(h), text |-> UnicodeText(ps_parse(ps_quote(t))),
     chromium |-> c]

\* What the PowerShell script places: a DataObject with "HTML Format" and
\* UnicodeText; chromium_custom_data is not used.
ps_placement(h, t, c) ==
    [html |-> CfHtml(h), text |-> UnicodeText(ps_parse(ps_quote(t))),
     chromium |-> None]

\* The messages of sublime.status_message (the source writes a dash of
\* another kind in the two notices).
MSG_MARKDOWN == "Converted to Markdown"
MSG_SLACK == "Converted for Slack"
MSG_RICHTEXT == "Converted to Rich Text"
MSG_UNSUPPORTED ==
    "Tab Note Converter: Rich text not supported on this OS - copied raw HTML"
MSG_LAST_RESORT ==
    "Tab Note Converter: Could not set rich text - copied raw HTML (check console for errors)"

ClipFrame ==
    /\ UNCHANGED <<text, entry, lines, result, md_out, html_parts,
                   current_depth, html_out, parts, list_stack, div_open,
                   first_heading, slack_out>>
    /\ UNCHANGED <<pickle_vars, cf_vars>>
    /\ UNCHANGED platform

\* ConvertTabNoteToMarkdownCommand.run
MarkdownRun ==
    /\ pc = "done"
    /\ command = "none"
    /\ command' = "markdown"
    /\ clipboard' = set_clipboard(normalize_output(md_out))
    /\ status' = Append(status, MSG_MARKDOWN)
    /\ pc' = "cmd_done"
    /\ UNCHANGED <<html, plain_text, chromium_custom_data, clip_open, api_log,
                   tiers, failures, raised, tmp_file, ret>>
    /\ ClipFrame

\* ConvertTabNoteToSlackMessageCommand.run, up to the call of
\* set_clipboard_html(slack_html, markdown, chromium_data)
SlackRun ==
    /\ pc = "done"
    /\ command = "none"
    /\ command' = "slack"
    /\ html' = slack_out
    /\ plain_text' = normalize_output(md_out)
    /\ chromium_custom_data' = ChromiumPickle(<< <<SLACK_HTML_MIME, slack_out>> >>)
    /\ pc' = "sch"
    /\ UNCHANGED <<clipboard, clip_open, api_log, tiers, failures, raised,
                   tmp_file, ret, status>>
    /\ ClipFrame

\* ConvertTabNoteToRichtextCommand.run, up to the call of
\* set_clipboard_html(html, plain_text)
RichtextRun ==
    /\ pc = "done"
    /\ command = "none"
    /\ command' = "richtext"
    /\ html' = html_out
    /\ plain_text' = normalize_output(md_out)
    /\ chromium_custom_data' = None
    /\ pc' = "sch"
    /\ UNCHANGED <<clipboard, clip_open, api_log, tiers, failures, raised,
                   tmp_file, ret, status>>
    /\ ClipFrame

\* success = set_clipboard_html(...); if success: status_message(...)
RunEnd ==
    /\ pc = "sch_ret"
    /\ status' = IF ret = "True"
                 THEN Append(status, IF command = "slack" THEN MSG_SLACK
                                     ELSE MSG_RICHTEXT)
                 ELSE status
    /\ pc' = "cmd_done"
    /\ UNCHANGED <<command, html, plain_text, chromium_custom_data, clipboard,
                   clip_open, api_log, tiers, failures, raised, tmp_file, ret>>
    /\ ClipFrame

\* Where a raise in _set_clipboard_html_ctypes leads: outside the try
\* statement, to the caller.
ct_raise_no_finally(in_try) == "ct_failed"

\* Where a raise in _set_clipboard_html_ctypes leads: inside the try
\* statement to the finally clause, before it to the caller.
ct_raise(in_try) == IF in_try THEN "ct_close" ELSE "ct_failed"

\* As sch_return, with True after the text placement too.
sch_return_always_true(tier) == "True"

\* The value set_clipboard_html returns after the placement by a tier.
sch_return(tier) == IF tier = "set_clipboard" THEN "False" ELSE "True"

\* Outcomes of _alloc_clipboard_data followed by SetClipboardData.
SetOutcomes == {"ok", "alloc_failed", "set_failed"}

\* if sys.platform != 'win32': set_clipboard(html); status_message; return False
SchUnsupported ==
    /\ pc = "sch"
    /\ platform # "win32"
    /\ tiers' = Append(tiers, "set_clipboard")
    /\ clipboard' = set_clipboard(html)
    /\ status' = Append(status, MSG_UNSUPPORTED)
    /\ ret' = sch_return("set_clipboard")
    /\ pc' = "sch_ret"
    /\ UNCHANGED <<command, html, plain_text, chromium_custom_data, clip_open,
                   api_log, failures, raised, tmp_file>>
    /\ ClipFrame

\* try: _set_clipboard_html_ctypes(html, plain_text, chromium_custom_data)
SchTryCtypes ==
    /\ pc = "sch"
    /\ platform = "win32"
    /\ tiers' = Append(tiers, "ctypes")
    /\ pc' = "ct_register"
    /\ UNCHANGED <<command, html, plain_text, chromium_custom_data, clipboard,
                   clip_open, api_log, failures, raised, tmp_file, ret, status>>
    /\ ClipFrame

CtFrame ==
    /\ UNCHANGED <<command, html, plain_text, chromium_custom_data, tiers,
                   failures, tmp_file, ret, status>>
    /\ ClipFrame

\* CF_HTML = RegisterClipboardFormatW("HTML Format"); if not CF_HTML: raise
CtRegisterHtml ==
    /\ pc = "ct_register"
    /\ \E ok \in BOOLEAN :
          /\ raised' = IF ok THEN "none" ELSE "RuntimeError"
          /\ pc' = IF ok THEN "ct_open" ELSE ct_raise(FALSE)
    /\ UNCHANGED <<clipboard, clip_open, api_log>>
    /\ CtFrame

\* if not user32.OpenClipboard(0): raise
CtOpen ==
    /\ pc = "ct_open"
    /\ \E ok \in BOOLEAN :
          /\ clip_open' = ok
          /\ api_log' = IF ok THEN Append(api_log, "OpenClipboard") ELSE api_log
          /\ raised' = IF ok THEN "none" ELSE "RuntimeError"
          /\ pc' = IF ok THEN "ct_empty" ELSE ct_raise(FALSE)
    /\ UNCHANGED clipboard
    /\ CtFrame

\* user32.EmptyClipboard()
CtEmpty ==
    /\ pc = "ct_empty"
    /\ api_log' = Append(api_log, "EmptyClipboard")
    /\ clipboard' = EmptiedClipboard
    /\ pc' = "ct_set_html"
    /\ UNCHANGED <<clip_open, raised>>
    /\ CtFrame

\* hHtml = _alloc_clipboard_data(...); if not SetClipboardData(CF_HTML, hHtml): raise
CtSetHtml ==
    /\ pc = "ct_set_html"
    /\ \E outcome \in SetOutcomes :
          /\ clipboard' = IF outcome = "ok"
                          THEN [clipboard EXCEPT !.html = CfHtml(html)]
                          ELSE clipboard
          /\ api_log' = IF outcome = "alloc_failed" THEN api_log
                        ELSE Append(api_log, "SetClipboardData")
          /\ raised' = IF outcome = "ok" THEN "none" ELSE "RuntimeError"
          /\ pc' = IF outcome = "ok" THEN "ct_set_text" ELSE ct_raise(TRUE)
    /\ UNCHANGED clip_open
    /\ CtFrame

\* hText = _alloc_clipboard_data(...); if not SetClipboardData(CF_UNICODETEXT, hText): raise
CtSetText ==
    /\ pc = "ct_set_text"
    /\ \E outcome \in SetOutcomes :
          /\ clipboard' = IF outcome = "ok"
                          THEN [clipboard EXCEPT !.text = UnicodeText(plain_text)]
                          ELSE clipboard
          /\ api_log' = IF outcome = "alloc_failed" THEN api_log
                        ELSE Append(api_log, "SetClipboardData")
          /\ raised' = IF outcome = "ok" THEN "none" ELSE "RuntimeError"
          /\ pc' = IF outcome # "ok" THEN ct_raise(TRUE)
                   ELSE IF chromium_custom_data.kind # "none"
                   THEN "ct_register_chromium"
                   ELSE "ct_close"
    /\ UNCHANGED clip_open
    /\ CtFrame

\* CF_CHROMIUM = RegisterClipboardFormatW(...); if CF_CHROMIUM: ...
CtRegisterChromium ==
    /\ pc = "ct_register_chromium"
    /\ \E ok \in BOOLEAN : pc' = IF ok THEN "ct_set_chromium" ELSE "ct_close"
    /\ UNCHANGED <<clipboard, clip_open, api_log, raised>>
    /\ CtFrame

\* hChromium = _alloc_clipboard_data(...); if not SetClipboardData(...): print
CtSetChromium ==
    /\ pc = "ct_set_chromium"
    /\ \E outcome \in SetOutcomes :
          /\ clipboard' = IF outcome = "ok"
                          THEN [clipboard EXCEPT !.chromium = chromium_custom_data]
                          ELSE clipboard
          /\ api_log' = IF outcome = "alloc_failed" THEN api_log
                        ELSE Append(api_log, "SetClipboardData")
          /\ raised' = IF outcome = "alloc_failed" THEN "RuntimeError" ELSE "none"
          /\ pc' = IF outcome = "alloc_failed" THEN ct_raise(TRUE) ELSE "ct_close"
    /\ UNCHANGED clip_open
    /\ CtFrame

\* finally: user32.CloseClipboard()
CtClose ==
    /\ pc = "ct_close"
    /\ api_log' = Append(api_log, "CloseClipboard")
    /\ clip_open' = FALSE
    /\ pc' = IF raised # "none" THEN "ct_failed" ELSE "ct_returned"
    /\ UNCHANGED <<clipboard, raised>>
    /\ CtFrame

\* _set_clipboard_html_ctypes returned: return True
SchCtypesOk ==
    /\ pc = "ct_returned"
    /\ ret' = sch_return("ctypes")
    /\ pc' = "sch_ret"
    /\ UNCHANGED <<command, html, plain_text, chromium_custom_data, clipboard,
                   clip_open, api_log, tiers, failures, raised, tmp_file, status>>
    /\ ClipFrame

\* except Exception: print; then try: _set_clipboard_html_powershell(...)
SchCtypesFailed ==
    /\ pc = "ct_failed"
    /\ failures' = Append(failures, <<"ctypes", raised>>)
    /\ raised' = "none"
    /\ tiers' = Append(tiers, "powershell")
    /\ pc' = "ps_write"
    /\ UNCHANGED <<command, html, plain_text, chromium_custom_data, clipboard,
                   clip_open, api_log, tmp_file, ret, status>>
    /\ ClipFrame

\* Outcomes of subprocess.run(['powershell', ...], timeout=5): the script
\* ended with code 0, with another code, did not end in time, or could not
\* be started.
PsOutcomes == {"ok", "nonzero", "timeout", "not_started"}

\* As ps_raises, with the timeout taken for a return.
ps_raises_timeout_ignored(outcome) ==
    CASE outcome = "ok" -> "none"
      [] outcome = "nonzero" -> "RuntimeError"
      [] outcome = "timeout" -> "none"
      [] outcome = "not_started" -> "OSError"

\* The exception the try block of _set_clipboard_html_powershell raises.
ps_raises(outcome) ==
    CASE outcome = "ok" -> "none"
      [] outcome = "nonzero" -> "RuntimeError"
      [] outcome = "timeout" -> "TimeoutExpired"
      [] outcome = "not_started" -> "OSError"

PsFrame ==
    /\ UNCHANGED <<command, html, plain_text, chromium_custom_data, clip_open,
                   api_log, tiers, failures, ret, status>>
    /\ ClipFrame

\* with open(tmp_path, 'wb') as f: f.write(payload.encode('utf-8'))
PsWriteTmp ==
    /\ pc = "ps_write"
    /\ \E ok \in BOOLEAN :
          /\ tmp_file' = ok
          /\ raised' = IF ok THEN "none" ELSE "OSError"
          /\ pc' = IF ok THEN "ps_run" ELSE "ps_failed"
    /\ UNCHANGED clipboard
    /\ PsFrame

\* result = subprocess.run(..., timeout=5); if result.returncode != 0: raise.
\* A script stopped by the timeout may or may not have placed its data.
PsRun ==
    /\ pc = "ps_run"
    /\ \E outcome \in PsOutcomes, placed \in BOOLEAN :
          /\ (placed = (outcome = "ok")) \/ outcome = "timeout"
          /\ clipboard' = IF placed
                          THEN ps_placement(html, plain_text, chromium_custom_data)
                          ELSE clipboard
          /\ raised' = ps_raises(outcome)
    /\ pc' = "ps_unlink"
    /\ UNCHANGED tmp_file
    /\ PsFrame

\* finally: try: os.unlink(tmp_path) except OSError: pass
PsUnlink ==
    /\ pc = "ps_unlink"
    /\ \E removed \in BOOLEAN : tmp_file' = ~removed
    /\ pc' = IF raised # "none" THEN "ps_failed" ELSE "ps_returned"
    /\ UNCHANGED <<clipboard, raised>>
    /\ PsFrame

\* _set_clipboard_html_powershell returned: return True
SchPowershellOk ==
    /\ pc = "ps_returned"
    /\ ret' = sch_return("powershell")
    /\ pc' = "sch_ret"
    /\ UNCHANGED <<command, html, plain_text, chromium_custom_data, clipboard,
                   clip_open, api_log, tiers, failures, raised, tmp_file, status>>
    /\ ClipFrame

\* except Exception: print; then sublime.set_clipboard(html);
\* status_message; return False
SchLastResort ==
    /\ pc = "ps_failed"
    /\ failures' = Append(failures, <<"powershell", raised>>)
    /\ raised' = "none"
    /\ tiers' = Append(tiers, "set_clipboard")
    /\ clipboard' = set_clipboard(html)
    /\ status' = Append(status, MSG_LAST_RESORT)
    /\ ret' = sch_return("set_clipboard")
    /\ pc' = "sch_ret"
    /\ UNCHANGED <<command, html, plain_text, chromium_custom_data, clip_open,
                   api_log, tmp_file>>
    /\ ClipFrame

---------------------------------------------------------------------------
(* The specifications: one per group of functions.                        *)

\* raw_to_markdown(text), markdown_to_html of its result and
\* raw_to_slack_html(text) for a raw text.
InitRaw ==
    /\ text \in Texts
    /\ entry = "raw"
    /\ pc = "start"
    /\ md_out = <<>>

\* markdown_to_html(md) called on a Markdown text of any origin.
InitMd ==
    /\ text = <<>>
    /\ entry = "md"
    /\ pc = "md_done"
    /\ md_out \in MdTexts

\* No renderer runs.
RenderIdle ==
    /\ text = <<>>
    /\ entry = "none"
    /\ md_out = <<>>

\* No Pickle is built or decoded.
PickleIdle ==
    /\ entries = <<>>
    /\ todo = <<>>
    /\ payload_parts = <<>>
    /\ pickle_out = <<>>
    /\ offset = 0
    /\ num_entries = 0
    /\ decoded = <<>>

\* No CF_HTML payload is built.
CfIdle ==
    /\ html_fragment = <<>>
    /\ offsets = [start_html |-> 0, end_html |-> 0,
                  start_fragment |-> 0, end_fragment |-> 0]
    /\ cf_out = <<>>

\* No command runs and the clipboard is not used.
ClipIdle ==
    /\ command = "none"
    /\ html = <<>>
    /\ plain_text = <<>>
    /\ chromium_custom_data = None
    /\ clipboard = EmptiedClipboard
    /\ clip_open = FALSE
    /\ api_log = <<>>
    /\ tiers = <<>>
    /\ failures = <<>>
    /\ raised = "none"
    /\ tmp_file = FALSE
    /\ ret = "none"
    /\ status = <<>>

RenderLocals ==
    /\ lines = <<>>
    /\ result = <<>>
    /\ html_parts = <<>>
    /\ current_depth = 0
    /\ html_out = <<>>
    /\ parts = <<>>
    /\ list_stack = <<>>
    /\ div_open = FALSE
    /\ first_heading = TRUE
    /\ slack_out = <<>>

Init ==
    /\ (InitRaw \/ InitMd)
    /\ RenderLocals
    /\ PickleIdle
    /\ CfIdle
    /\ ClipIdle
    /\ platform = "win32"

\* _build_cf_html(html_fragment) for a fragment of any characters.
InitCf ==
    /\ pc = "cf_start"
    /\ html_fragment \in Strs(CodePoints, MaxFragLen)
    /\ offsets = [start_html |-> 0, end_html |-> 0,
                  start_fragment |-> 0, end_fragment |-> 0]
    /\ cf_out = <<>>
    /\ RenderIdle
    /\ RenderLocals
    /\ PickleIdle
    /\ ClipIdle
    /\ platform = "win32"

NextCf == CfOffsets \/ CfReturn

SpecCf == InitCf /\ [][NextCf]_vars

\* _build_cf_html of a fragment of any length.
InitCfLong ==
    /\ pc = "cfl_start"
    /\ html_fragment \in LongFragments
    /\ offsets = [start_html |-> 0, end_html |-> 0,
                  start_fragment |-> 0, end_fragment |-> 0]
    /\ cf_out = <<>>
    /\ RenderIdle
    /\ RenderLocals
    /\ PickleIdle
    /\ ClipIdle
    /\ platform = "win32"

NextCfLong == NextCf \/ CfLongOffsets \/ CfLongReturn

SpecCfLong == (InitCf \/ InitCfLong) /\ [][NextCfLong]_vars

\* _build_chromium_custom_mime(entries), then decode_chromium_pickle of the
\* buffer.
InitPickle ==
    /\ pc = "pickle_start"
    /\ entries \in EntryLists
    /\ todo = <<>>
    /\ payload_parts = <<>>
    /\ pickle_out = <<>>
    /\ offset = 0
    /\ num_entries = 0
    /\ decoded = <<>>
    /\ RenderIdle
    /\ RenderLocals
    /\ CfIdle
    /\ ClipIdle
    /\ platform = "win32"

NextPickle ==
    \/ PickleBegin \/ PickleEntry \/ PickleReturn
    \/ DecHeader \/ DecEntry \/ DecEntryRaises \/ DecReturn

SpecPickle == InitPickle /\ [][NextPickle]_vars

Next ==
    \/ MdBegin \/ MdBlank \/ MdHeading \/ MdSection \/ MdBullet \/ MdReturn
    \/ HtmlBegin \/ HtmlBlank \/ HtmlHeading \/ HtmlSection \/ HtmlBullet
    \/ HtmlParagraph \/ HtmlReturn
    \/ SlackBegin \/ SlackBlank \/ SlackHeading \/ SlackSection
    \/ SlackBulletFirst \/ SlackBulletDeeper \/ SlackBulletSame
    \/ SlackBulletShallower \/ SlackReturn

Spec == Init /\ [][Next]_vars

\* A command run on a raw text: the renderers, then the placement on a
\* clipboard that starts without any format.
InitClip ==
    /\ text \in ClipTexts
    /\ entry = "raw"
    /\ pc = "start"
    /\ md_out = <<>>
    /\ RenderLocals
    /\ PickleIdle
    /\ CfIdle
    /\ ClipIdle
    /\ platform \in Platforms

NextClip ==
    \/ MdBegin \/ MdBlank \/ MdHeading \/ MdSection \/ MdBullet \/ MdReturn
    \/ HtmlBegin \/ HtmlBlank \/ HtmlHeading \/ HtmlSection \/ HtmlBullet
    \/ HtmlReturn
    \/ SlackBegin \/ SlackBlank \/ SlackHeading \/ SlackSection
    \/ SlackBulletFirst \/ SlackBulletDeeper \/ SlackBulletSame
    \/ SlackBulletShallower \/ SlackReturn
    \/ MarkdownRun \/ SlackRun \/ RichtextRun \/ RunEnd
    \/ SchUnsupported \/ SchTryCtypes \/ SchCtypesOk \/ SchCtypesFailed
    \/ SchPowershellOk \/ SchLastResort
    \/ CtRegisterHtml \/ CtOpen \/ CtEmpty \/ CtSetHtml \/ CtSetText
    \/ CtRegisterChromium \/ CtSetChromium \/ CtClose
    \/ PsWriteTmp \/ PsRun \/ PsUnlink

SpecClip == InitClip /\ [][NextClip]_vars

\* The steps of set_clipboard_html and of the two functions it calls.
SchStep ==
    \/ SchUnsupported \/ SchTryCtypes \/ SchCtypesOk \/ SchCtypesFailed
    \/ SchPowershellOk \/ SchLastResort
    \/ CtRegisterHtml \/ CtOpen \/ CtEmpty \/ CtSetHtml \/ CtSetText
    \/ CtRegisterChromium \/ CtSetChromium \/ CtClose
    \/ PsWriteTmp \/ PsRun \/ PsUnlink

\* Every step of set_clipboard_html ends: a system call returns or fails,
\* and the PowerShell script is stopped after 5 seconds.
SpecClipLive == SpecClip /\ WF_vars(SchStep)

---------------------------------------------------------------------------
(* Properties of the renderers.                                            *)

\* The lines of the raw text, and those the running loop has read.
InputLines == split(text, NL)
ReadLines == SubSeq(InputLines, 1, Len(InputLines) - Len(lines))

\* Number of tab characters a line starts with.
LeadingTabs(line) == RunLen(line, 1, TAB)

\* A line with nothing but whitespace.
IsBlankLine(line) == \A i \in 1..Len(line) : line[i] \in Whitespace

\* A line without its leading tabs and its trailing whitespace.
LineText(line) ==
    LET last == CHOOSE k \in 0..Len(line) :
                    /\ k = 0 \/ line[k] \notin Whitespace
                    /\ \A j \in (k + 1)..Len(line) : line[j] \in Whitespace
    IN SubSeq(line, LeadingTabs(line) + 1, last)

IsBulletLine(line) == ~IsBlankLine(line) /\ LeadingTabs(line) >= 2

RawDone == entry = "raw" /\ pc = "done"

\* The state of a scan of the Slack token stream: how many <ul>, <li> and
\* <div> are open, and whether every close token so far found its element
\* open.
ScanStart == [ul |-> 0, li |-> 0, div |-> 0, ok |-> TRUE]

ScanTok(st, t) ==
    CASE t.tok = "ul_open" -> [st EXCEPT !.ul = @ + 1]
      [] t.tok = "li_open" -> [st EXCEPT !.li = @ + 1]
      [] t.tok = "div_open" -> [st EXCEPT !.div = @ + 1]
      [] t.tok = "li_close" ->
           [st EXCEPT !.li = @ - 1, !.ok = @ /\ st.li > 0]
      [] t.tok = "li_ul_close" ->
           [st EXCEPT !.li = @ - 1, !.ul = @ - 1,
                      !.ok = @ /\ st.li > 0 /\ st.ul > 0]
      [] t.tok = "div_close" ->
           [st EXCEPT !.div = @ - 1, !.ok = @ /\ st.div > 0]
      [] OTHER -> st

RECURSIVE Scan(_, _)
Scan(st, toks) ==
    IF toks = <<>> THEN st ELSE Scan(ScanTok(st, Head(toks)), Tail(toks))

Balanced(toks) ==
    LET st == Scan(ScanStart, toks)
    IN st.ok /\ st.ul = 0 /\ st.li = 0 /\ st.div = 0

\* C1: the token stream returned by raw_to_slack_html is balanced: every
\* close token finds its element open and no <ul>, <li> or <div> is left
\* open at the end of the output.
C1_SlackBalanced == RawDone => Balanced(parts)

\* Largest number of <ul> open at once in the output of markdown_to_html.
RECURSIVE MaxOpenUl(_, _, _)
MaxOpenUl(toks, open, best) ==
    IF toks = <<>> THEN best
    ELSE LET now == CASE Head(toks).tok = "ul_li" -> open + 1
                      [] Head(toks).tok = "close" -> open - 1
                      [] OTHER -> open
         IN MaxOpenUl(Tail(toks), now, IF now > best THEN now ELSE best)

BulletTabs == { LeadingTabs(InputLines[i]) :
                  i \in { j \in 1..Len(InputLines) : IsBulletLine(InputLines[j]) } }

MaxBulletTabs == CHOOSE t \in BulletTabs : \A u \in BulletTabs : u <= t

\* markdown_to_html has just returned for the Markdown of a raw text.
HtmlOfRawDone == entry = "raw" /\ pc = "html_done"

\* C4: markdown_to_html of raw_to_markdown's output nests lists to a depth of
\* the largest bullet tab_count minus 1, and to depth 0 without bullets.
C4_MaxListDepth ==
    HtmlOfRawDone =>
        MaxOpenUl(html_parts, 0, 0) =
            IF BulletTabs = {} THEN 0 ELSE MaxBulletTabs - 1

\* C4 witness: a conversion whose bullets sit at two depths, the deepest at
\* tab_count 3.
C4_Witness ==
    /\ HtmlOfRawDone
    /\ Cardinality(BulletTabs) >= 2
    /\ MaxOpenUl(html_parts, 0, 0) = 2

\* raw_to_markdown has just returned.
MdOfRawDone == entry = "raw" /\ pc = "md_done"

HasThreeNewlines(s) ==
    \E i \in 1..(Len(s) - 2) : s[i] = NL /\ s[i + 1] = NL /\ s[i + 2] = NL

\* C5: the string returned by raw_to_markdown never has three or more
\* consecutive newline characters.
C5_NoThreeNewlines == MdOfRawDone => ~HasThreeNewlines(md_out)

\* C5 witness: a conversion whose joined lines had such a run.
C5_Witness ==
    /\ MdOfRawDone
    /\ HasThreeNewlines(join(<<NL>>, result))

\* "# Title\n\n**Section A**\n* First\n* Second"
ScenarioMarkdown ==
    <<"#"," ","T","i","t","l","e",NL,
      NL,
      "*","*","S","e","c","t","i","o","n"," ","A","*","*",NL,
      "*"," ","F","i","r","s","t",NL,
      "*"," ","S","e","c","o","n","d">>

\* C8 as stated: for the scenario text raw_to_markdown returns the five
\* lines with nothing after '* Second'.
C8_ScenarioNoTrailingNewline ==
    (MdOfRawDone /\ text = ScenarioText) => md_out = ScenarioMarkdown

\* C8: for the scenario text raw_to_markdown returns the five lines followed
\* by one newline, which the empty last line of the input leaves.
C8_ScenarioMarkdown ==
    (MdOfRawDone /\ text = ScenarioText) => md_out = ScenarioMarkdown \o <<NL>>

\* C8 witness: the scenario text has been converted.
C8_Witness == MdOfRawDone /\ text = ScenarioText

WhitespaceOnly(s) == \A i \in 1..Len(s) : s[i] \in Whitespace

\* C9 as stated: for the empty text each of the three renderers returns an
\* empty or whitespace-only string.
C9_EmptyInputAllEmpty ==
    (RawDone /\ text = <<>>) =>
        WhitespaceOnly(md_out) /\ WhitespaceOnly(html_out)
        /\ WhitespaceOnly(slack_out)

\* C9: for the empty text raw_to_markdown and markdown_to_html return the
\* empty string and raw_to_slack_html returns the meta charset tag alone,
\* with no block or list element; all three return.
C9_EmptyInput ==
    (RawDone /\ text = <<>>) =>
        /\ md_out = <<>>
        /\ html_out = <<>>
        /\ slack_out = <<"<meta charset=\"utf-8\">">>
        /\ parts = <<SLACK_META>>

\* C9 witness: the empty text has gone through the three renderers.
C9_Witness == RawDone /\ text = <<>>

\* The Markdown lines a raw line stands for, by its leading tabs alone.
ExpectedMarkdown(line) ==
    IF IsBlankLine(line) THEN << <<>> >>
    ELSE IF LeadingTabs(line) = 0 THEN << <<"#", " ">> \o LineText(line) >>
    ELSE IF LeadingTabs(line) = 1
    THEN << <<>>, <<"*", "*">> \o LineText(line) \o <<"*", "*">> >>
    ELSE << [i \in 1..(2 * (LeadingTabs(line) - 2)) |-> " "]
            \o <<"*", " ">> \o LineText(line) >>

RECURSIVE ExpectedMarkdownOf(_)
ExpectedMarkdownOf(ls) ==
    IF ls = <<>> THEN <<>>
    ELSE ExpectedMarkdown(Head(ls)) \o ExpectedMarkdownOf(Tail(ls))

NonEmpty(ls) == SelectSeq(ls, LAMBDA l : l # <<>>)

\* C10: raw_to_markdown maps every line by its leading tabs alone (blank,
\* '# text', blank + '**text**', 2*(t-2) spaces + '* text'), in input order,
\* and the returned string drops nothing but blank lines.
C10_LineMapping ==
    /\ (entry = "raw" /\ pc = "md") => result = ExpectedMarkdownOf(ReadLines)
    /\ MdOfRawDone =>
         /\ result = ExpectedMarkdownOf(InputLines)
         /\ NonEmpty(split(md_out, NL)) = NonEmpty(ExpectedMarkdownOf(InputLines))

\* C10 witness: a returned conversion of a heading, a section and a nested
\* bullet.
C10_Witness ==
    /\ MdOfRawDone
    /\ \E i, j, k \in 1..Len(InputLines) :
          /\ ~IsBlankLine(InputLines[i]) /\ LeadingTabs(InputLines[i]) = 0
          /\ ~IsBlankLine(InputLines[j]) /\ LeadingTabs(InputLines[j]) = 1
          /\ ~IsBlankLine(InputLines[k]) /\ LeadingTabs(InputLines[k]) = 3

---------------------------------------------------------------------------
(* Properties of the CF_HTML builder.                                      *)

\* First position at which sub occurs in b, or 0.
FindSub(b, sub) ==
    LET hits == { i \in 1..(Len(b) - Len(sub) + 1) :
                    SubSeq(b, i, i + Len(sub) - 1) = sub }
    IN IF hits = {} THEN 0 ELSE CHOOSE i \in hits : \A j \in hits : i <= j

RECURSIVE ReadNumber(_, _, _)
\* The decimal number written from position i of b on.
ReadNumber(b, i, acc) ==
    IF i <= Len(b) /\ b[i] >= 48 /\ b[i] <= 57
    THEN ReadNumber(b, i + 1, 10 * acc + (b[i] - 48))
    ELSE acc

\* The value of the header field a reader finds under a label.
HeaderField(b, label) == ReadNumber(b, FindSub(b, label) + Len(label), 0)

---------------------------------------------------------------------------
(* Properties of the Pickle builder.                                       *)

\* The strings of the entries in the order written: each MIME type, then its
\* content.
RECURSIVE EntryStrings(_)
EntryStrings(es) ==
    IF es = <<>> THEN <<>> ELSE <<Head(es)[1], Head(es)[2]>> \o EntryStrings(Tail(es))

\* Bytes a string of n data bytes takes in the buffer: count, data, padding.
FieldLen(n) == 4 + n + ((4 - (n % 4)) % 4)

RECURSIVE FieldStarts(_, _)
\* The offsets at which the count fields of the strings ss start, the first
\* at off.
FieldStarts(ss, off) ==
    IF ss = <<>> THEN <<>>
    ELSE <<off>> \o FieldStarts(Tail(ss), off + FieldLen(Len(encode_utf16le(Head(ss)))))

\* The decoder has stopped, by returning or by raising.
DecStopped == pc \in {"dec_done", "dec_error"}

\* C2: decoding the buffer of _build_chromium_custom_mime by the layout of
\* decode_chromium_pickle yields the original pairs in the original order.
C2_RoundTrip == DecStopped => (pc = "dec_done" /\ decoded = entries)

\* C6: the count field before every string written is the number of UTF-16
\* code units of the string, half the byte length of the data after it.
C6_CountIsCodeUnits ==
    pc = "pickle_done" =>
        LET ss == EntryStrings(entries)
            starts == FieldStarts(ss, 8)
        IN \A i \in 1..Len(ss) :
              2 * unpack_u32(pickle_out, starts[i]) = Len(encode_utf16le(ss[i]))

\* C7: the buffer is the u32 byte length of the rest, the u32 number of
\* entries, then for every entry in the order given the MIME type string and
\* the content string, and nothing else.
C7_BufferLayout ==
    pc = "pickle_done" =>
        LET ss == EntryStrings(entries)
            starts == FieldStarts(ss, 8)
            total == IF ss = <<>> THEN 8
                     ELSE starts[Len(ss)]
                          + FieldLen(Len(encode_utf16le(ss[Len(ss)])))
        IN /\ Len(pickle_out) >= 8
           /\ unpack_u32(pickle_out, 0) = Len(pickle_out) - 4
           /\ unpack_u32(pickle_out, 4) = Len(entries)
           /\ Len(pickle_out) = total
           /\ \A i \in 1..Len(ss) :
                 slice(pickle_out, starts[i] + 4,
                       starts[i] + 4 + Len(encode_utf16le(ss[i])))
                 = encode_utf16le(ss[i])

\* C7 witness: a buffer of two entries that differ, with a MIME type and a
\* content that differ.
C7_Witness ==
    /\ pc = "pickle_done"
    /\ Len(entries) = 2
    /\ entries[1] # entries[2]
    /\ entries[1][1] # entries[1][2]

---------------------------------------------------------------------------
(* Properties of the list handling of raw_to_slack_html.                   *)

\* Depth of a bullet line.
BulletDepth(line) == LeadingTabs(line) - 2

RECURSIVE NeverDropsFrom(_, _, _)
\* No bullet of ls from position i on is shallower than the first bullet of
\* its run; first is that bullet's depth, or -1 outside a run. A run is a
\* maximal sequence of consecutive bullet lines.
NeverDropsFrom(ls, i, first) ==
    IF i > Len(ls) THEN TRUE
    ELSE IF ~IsBulletLine(ls[i]) THEN NeverDropsFrom(ls, i + 1, -1)
    ELSE IF first = -1 THEN NeverDropsFrom(ls, i + 1, BulletDepth(ls[i]))
    ELSE BulletDepth(ls[i]) >= first /\ NeverDropsFrom(ls, i + 1, first)

NeverDrops(ls) == NeverDropsFrom(ls, 1, -1)

RECURSIVE LevelsEntered(_, _, _)
\* Number of depth levels the bullets of ls enter from position i on: one
\* for the first bullet of a run, and one for every level between the
\* previous bullet's depth (top) and a deeper bullet's depth.
LevelsEntered(ls, i, top) ==
    IF i > Len(ls) THEN 0
    ELSE IF ~IsBulletLine(ls[i]) THEN LevelsEntered(ls, i + 1, -1)
    ELSE LET d == BulletDepth(ls[i])
             n == IF top = -1 THEN 1 ELSE IF d > top THEN d - top ELSE 0
         IN n + LevelsEntered(ls, i + 1, d)

\* Number of parts of a token.
CountTok(toks, name) == Cardinality({ i \in 1..Len(toks) : toks[i].tok = name })

RECURSIVE NestScan(_, _, _)
\* A scan of the token stream with the data-indent values of the lists open
\* so far (innermost last): a list opened inside another is one level
\* deeper, every '</li></ul>' closes the innermost open list, and no list
\* stays open.
NestScan(toks, i, open) ==
    IF i > Len(toks) THEN open = <<>>
    ELSE IF toks[i].tok = "ul_open"
    THEN /\ open # <<>> => toks[i].indent = open[Len(open)] + 1
         /\ NestScan(toks, i + 1, Append(open, toks[i].indent))
    ELSE IF toks[i].tok = "li_ul_close"
    THEN /\ open # <<>>
         /\ NestScan(toks, i + 1, SubSeq(open, 1, Len(open) - 1))
    ELSE NestScan(toks, i + 1, open)

\* C11: when no bullet is shallower than the first bullet of its run,
\* raw_to_slack_html opens exactly one list per depth level entered (none
\* for a bullet at the depth of the one before it), every nested list is
\* closed before the list around it, and the output is balanced.
C11_OneListPerLevel ==
    (RawDone /\ NeverDrops(InputLines)) =>
        /\ CountTok(parts, "ul_open") = LevelsEntered(InputLines, 1, -1)
        /\ NestScan(parts, 1, <<>>)
        /\ Balanced(parts)

\* C11 witness: the returned conversion of three bullets with tab counts 2,
\* 2 and 3: one list at depth 0 with two items, one nested list at depth 1.
C11_Witness ==
    /\ RawDone
    /\ Len(InputLines) = 3
    /\ \A i \in 1..3 : IsBulletLine(InputLines[i])
    /\ <<LeadingTabs(InputLines[1]), LeadingTabs(InputLines[2]),
         LeadingTabs(InputLines[3])>> = <<2, 2, 3>>
    /\ CountTok(parts, "ul_open") = 2
    /\ CountTok(parts, "li_open") = 3

---------------------------------------------------------------------------
(* Properties of the clipboard placement.                                  *)

\* The placement mechanisms of set_clipboard_html in the order of the code.
AllTiers == <<"ctypes", "powershell", "set_clipboard">>

Attempted(t) == \E i \in 1..Len(tiers) : tiers[i] = t

\* set_clipboard_html caught an exception of tier t.
TierFailed(t) == \E i \in 1..Len(failures) : failures[i][1] = t

IsPrefix(a, b) == Len(a) <= Len(b) /\ a = SubSeq(b, 1, Len(a))

\* set_clipboard_html has returned to the command.
SchReturned == pc \in {"sch_ret", "cmd_done"} /\ command \in {"slack", "richtext"}

\* The tiers are tried in the fixed order, each at most once, each after the
\* failure of the ones before it, and the returned value tells the rich
\* tiers from the text placement.
TierRules ==
    /\ IsPrefix(tiers, AllTiers)
    /\ Attempted("powershell") => TierFailed("ctypes")
    /\ Attempted("set_clipboard") =>
          TierFailed("ctypes") /\ TierFailed("powershell")
    /\ \A i \in 1..(Len(tiers) - 1) : TierFailed(tiers[i])
    /\ SchReturned =>
          /\ ret = "True" <=>
                /\ tiers # <<>>
                /\ tiers[Len(tiers)] \in {"ctypes", "powershell"}
                /\ ~TierFailed(tiers[Len(tiers)])
          /\ ret = "False" <=> Attempted("set_clipboard")

\* C12 as stated: on every platform the text placement comes only after the
\* native and the fallback tier were tried and failed.
C12_TiersInOrder == TierRules

\* C12: on win32 the tiers are tried in the fixed order, each at most once
\* and only after the failure of the one before, True is returned exactly
\* after a rich tier succeeded and False exactly after the text placement;
\* on any other platform the text placement is the only step and False is
\* returned.
C12_TiersInOrderOnWin32 ==
    /\ platform = "win32" => TierRules
    /\ platform # "win32" =>
          /\ IsPrefix(tiers, <<"set_clipboard">>)
          /\ failures = <<>>
          /\ SchReturned => (ret = "False" /\ tiers = <<"set_clipboard">>)

\* C12 witness: a call on win32 that went through the three tiers.
C12_Witness ==
    /\ SchReturned
    /\ platform = "win32"
    /\ tiers = AllTiers
    /\ ret = "False"

\* Some format is on the clipboard.
HasContent(c) ==
    c.html.kind # "none" \/ c.text.kind # "none" \/ c.chromium.kind # "none"

\* Each tier is in tiers at most once.
NoTierTwice ==
    \A i, j \in 1..Len(tiers) : tiers[i] = tiers[j] => i = j

\* C13: an exception of the native or of the fallback tier, the timeout of
\* the PowerShell script included, never reaches the command, no tier is
\* tried twice, and every call of set_clipboard_html returns with some
\* format on the clipboard.
C13_FailuresFallThrough ==
    /\ [](pc \in {"sch_ret", "cmd_done"} => raised = "none")
    /\ []NoTierTwice
    /\ (pc = "sch") ~> (pc = "sch_ret" /\ ret # "none" /\ HasContent(clipboard))

\* C13 witness: a call that returned after the native tier failed and the
\* PowerShell script was stopped by its timeout.
C13_Witness ==
    /\ pc = "sch_ret"
    /\ failures = << <<"ctypes", "RuntimeError">>,
                     <<"powershell", "TimeoutExpired">> >>
    /\ HasContent(clipboard)

\* A notice that rich formatting was not applied has been shown.
NoticeShown ==
    \E i \in 1..Len(status) : status[i] \in {MSG_UNSUPPORTED, MSG_LAST_RESORT}

\* C14: when set_clipboard_html returns after the text placement, the
\* clipboard holds the plain_text argument as its only format and a notice
\* has been shown.
C14_LastResortPlacesPlainText ==
    (SchReturned /\ Attempted("set_clipboard")) =>
        /\ clipboard = set_clipboard(plain_text)
        /\ NoticeShown

RECURSIVE LogBracketed(_, _, _)
\* In the calls log from position i on, with open telling whether the
\* clipboard is open before it: OpenClipboard succeeds only on a closed
\* clipboard, every other call is made on an open one, and open_after
\* tells whether the clipboard is open at the end.
LogBracketed(log, i, open) ==
    IF i > Len(log) THEN [ok |-> TRUE, open_after |-> open]
    ELSE IF log[i] = "OpenClipboard"
    THEN IF open THEN [ok |-> FALSE, open_after |-> open]
         ELSE LogBracketed(log, i + 1, TRUE)
    ELSE IF ~open THEN [ok |-> FALSE, open_after |-> open]
    ELSE LogBracketed(log, i + 1, log[i] # "CloseClipboard")

CountCalls(name) == Cardinality({ i \in 1..Len(api_log) : api_log[i] = name })

\* The positions of _set_clipboard_html_ctypes between OpenClipboard and
\* CloseClipboard.
InCriticalSection ==
    pc \in {"ct_empty", "ct_set_html", "ct_set_text", "ct_register_chromium",
            "ct_set_chromium", "ct_close"}

\* C15: EmptyClipboard and SetClipboardData are called only between a
\* successful OpenClipboard and its CloseClipboard, every successful
\* OpenClipboard has exactly one CloseClipboard once the native path has
\* returned or raised, and the clipboard is open only inside the native
\* path.
C15_CriticalSection ==
    /\ LogBracketed(api_log, 1, FALSE).ok
    /\ LogBracketed(api_log, 1, FALSE).open_after = clip_open
    /\ clip_open => InCriticalSection
    /\ ~InCriticalSection =>
          CountCalls("OpenClipboard") = CountCalls("CloseClipboard")

\* C15 witness: the native path has raised after CF_HTML was set and the
\* setting of CF_UNICODETEXT failed, and the clipboard is closed.
C15_Witness ==
    /\ pc = "ct_failed"
    /\ api_log = <<"OpenClipboard", "EmptyClipboard", "SetClipboardData",
                   "SetClipboardData", "CloseClipboard">>
    /\ ~clip_open

\* C16: whenever the clipboard is closed, the HTML format is on it only
\* together with the Unicode text format holding the plain_text of the same
\* call.
C16_HtmlPairedWithText ==
    (~clip_open /\ clipboard.html.kind # "none") =>
        /\ clipboard.text.kind = "text"
        /\ clipboard.text.arg = plain_text

\* C17: once the Slack command has shown 'Converted for Slack', the
\* clipboard holds the custom-MIME format with the slack/html entry, the
\* HTML format and the Unicode text format.
C17_SlackSuccessHasThreeFormats ==
    (\E i \in 1..Len(status) : status[i] = MSG_SLACK) =>
        /\ clipboard.chromium.kind = "pickle"
        /\ clipboard.html.kind = "cf_html"
        /\ clipboard.text.kind = "text"

\* C18: the custom-MIME format is on the clipboard only in a run of the
\* Slack command, placed by the native tier alone, and its payload is the
\* Pickle of the single entry ('slack/html', slack_html); the Markdown and
\* the Rich Text command pass no custom-MIME data and never place the
\* format.
C18_CustomMimeOnlySlackNative ==
    /\ clipboard.chromium.kind # "none" =>
          /\ command = "slack"
          /\ tiers = <<"ctypes">>
          /\ clipboard.chromium.kind = "pickle"
          /\ Len(clipboard.chromium.arg) = 1
          /\ clipboard.chromium.arg[1] = <<SLACK_HTML_MIME, slack_out>>
    /\ command \in {"markdown", "richtext"} =>
          /\ chromium_custom_data.kind = "none"
          /\ clipboard.chromium.kind = "none"

\* C18 witness: a finished run of the Slack command on the outline, with
\* the custom-MIME format on the clipboard.
C18_Witness ==
    /\ pc = "cmd_done"
    /\ command = "slack"
    /\ text # <<>>
    /\ clipboard.chromium.kind = "pickle"

\* A line with content and no leading tab.
IsHeadingLine(line) == ~IsBlankLine(line) /\ LeadingTabs(line) = 0

\* raw_to_slack_html has read at least one line and has not returned.
SlackLineRead == entry = "raw" /\ pc = "slack" /\ ReadLines # <<>>

LastRead == ReadLines[Len(ReadLines)]

\* C19: right after a Heading line is processed, the last part is its bold
\* text, and the part before it is a paragraph-break marker exactly when
\* an earlier line of the input was a Heading line.
C19_ParagraphBreakBeforeLaterHeadings ==
    (SlackLineRead /\ IsHeadingLine(LastRead)) =>
        LET n == Len(parts)
            later == \E i \in 1..(Len(ReadLines) - 1) : IsHeadingLine(ReadLines[i])
        IN /\ parts[n].tok = "bold"
           /\ later <=> parts[n - 1].tok = "para_break"

RECURSIVE OpenLists(_, _, _)
\* The data-indent values of the <ul> elements opened and not closed in the
\* parts from position i on, after those of open (innermost last).
OpenLists(toks, i, open) ==
    IF i > Len(toks) THEN open
    ELSE IF toks[i].tok = "ul_open"
    THEN OpenLists(toks, i + 1, Append(open, toks[i].indent))
    ELSE IF toks[i].tok = "li_ul_close" /\ open # <<>>
    THEN OpenLists(toks, i + 1, SubSeq(open, 1, Len(open) - 1))
    ELSE OpenLists(toks, i + 1, open)

\* C20: right after a Bullet line of depth d is processed, list_stack is
\* not empty and its top is d, the last part is the <li> with the indent d,
\* and the innermost <ul> open in the output has data-indent d.
C20_BulletAtTopOfStack ==
    (SlackLineRead /\ IsBulletLine(LastRead)) =>
        LET d == BulletDepth(LastRead)
            open == OpenLists(parts, 1, <<>>)
        IN /\ list_stack # <<>>
           /\ list_stack[Len(list_stack)] = d
           /\ parts[Len(parts)].tok = "li_open"
           /\ parts[Len(parts)].indent = d
           /\ open # <<>>
           /\ open[Len(open)] = d


---------------------------------------------------------------------------
(* Properties of list_stack in raw_to_slack_html.                          *)

\* raw_to_slack_html is between two lines of its loop, or has returned.
SlackAtLine == entry = "raw" /\ pc \in {"slack", "done"}

\* Strictly increasing from the first element (bottom) to the last (top).
StrictlyIncreasing(st) == \A i \in 1..(Len(st) - 1) : st[i] < st[i + 1]

\* list_stack mirrors the output: it is strictly increasing and holds, in
\* order, the data-indent values of the <ul> opened and not yet closed.
StackMirrorsOutput ==
    SlackAtLine =>
        /\ StrictlyIncreasing(list_stack)
        /\ list_stack = OpenLists(parts, 1, <<>>)

\* One step of the loop (or the closing step after it) appends parts; the
\* <ul> opens among them are as many as the entries the step pushed, the
\* '</li></ul>' tokens as many as the entries it popped. No step of the
\* code both pushes and pops, so the pushes of a step are the growth of the
\* stack and its pops are the shrinkage.
PushPopTokens ==
    (SlackAtLine /\ SlackAtLine' /\ parts' # parts) =>
        /\ IsPrefix(parts, parts')
        /\ LET added == SubSeq(parts', Len(parts) + 1, Len(parts'))
               grow == Len(list_stack') - Len(list_stack)
           IN /\ CountTok(added, "ul_open") = IF grow > 0 THEN grow ELSE 0
              /\ CountTok(added, "li_ul_close") = IF grow < 0 THEN -grow ELSE 0

\* C21: after every input line of raw_to_slack_html, list_stack is strictly
\* increasing from bottom to top and equals, in order, the data-indent
\* values of the <ul> elements opened and not yet closed in the output so
\* far; every push comes with exactly one <ul> open and every pop with
\* exactly one '</li></ul>' token.
C21_StackMirrorsOpenLists == []StackMirrorsOutput /\ [][PushPopTokens]_vars

\* C21 witness: after bullets at depths 0, 1 and 0 the stack holds one
\* level again: two lists were opened and one was closed by a pop.
C21_Witness ==
    /\ SlackLineRead
    /\ list_stack = <<0>>
    /\ CountTok(parts, "ul_open") = 2
    /\ CountTok(parts, "li_ul_close") = 1

\* The loop is about to read a Bullet line deeper than the top of a
\* non-empty list_stack.
DeeperBulletNext ==
    /\ entry = "raw" /\ pc = "slack" /\ lines # <<>>
    /\ IsBulletLine(Head(lines))
    /\ list_stack # <<>>
    /\ BulletDepth(Head(lines)) > list_stack[Len(list_stack)]

\* What the step of such a line does: depth - t levels pushed, t+1 .. depth
\* in order, and for each a <ul> and an <li> appended, the <li> of the last
\* level alone carrying the escaped text of the line.
DeeperBulletStep ==
    DeeperBulletNext =>
        LET t == list_stack[Len(list_stack)]
            d == BulletDepth(Head(lines))
            n == d - t
            added == SubSeq(parts', Len(parts) + 1, Len(parts'))
        IN /\ IsPrefix(parts, parts')
           /\ list_stack' = list_stack \o [k \in 1..n |-> t + k]
           /\ Len(added) = 2 * n
           /\ \A k \in 1..n :
                /\ added[2 * k - 1] = slack_ul_open(t + k)
                /\ added[2 * k].tok = "li_open"
                /\ added[2 * k].indent = t + k
                /\ added[2 * k].text =
                       IF k = n THEN slack_escape(LineText(Head(lines)))
                       ELSE <<>>

\* C22: when a Bullet(depth) line arrives while list_stack is non-empty
\* with top t < depth, raw_to_slack_html opens exactly depth - t list
\* levels, with data-indent t+1 .. depth in that order, each pushed on the
\* stack; the levels below depth get an item with no text and the level
\* depth gets the item with the bullet's text.
C22_DeeperOpensEachLevel == [][DeeperBulletStep]_vars

\* C22 witness: a bullet with 2 tabs then one with 4: two levels opened by
\* the second line, the level 1 with an empty item.
C22_Witness ==
    /\ SlackLineRead
    /\ Len(ReadLines) = 2
    /\ LeadingTabs(ReadLines[1]) = 2 /\ LeadingTabs(ReadLines[2]) = 4
    /\ list_stack = <<0, 1, 2>>
    /\ parts[Len(parts) - 2] = slack_li_open(1, <<>>)
    /\ parts[Len(parts)].text # <<>>

---------------------------------------------------------------------------
(* Properties of current_depth in markdown_to_html.                        *)

\* The lines of the Markdown text, and those the running loop has read.
MdInputLines == split(md_out, NL)
MdReadLines == SubSeq(MdInputLines, 1, Len(MdInputLines) - Len(lines))

\* Number of whitespace characters a line starts with.
LeadingWhitespace(line) ==
    CHOOSE k \in 0..Len(line) :
        /\ \A j \in 1..k : line[j] \in Whitespace
        /\ k = Len(line) \/ line[k + 1] \notin Whitespace

\* A Markdown bullet line: whitespace, '*', whitespace, and a text.
IsMdBulletLine(line) ==
    LET w == LeadingWhitespace(line)
    IN /\ Len(line) >= w + 3
       /\ line[w + 1] = "*"
       /\ line[w + 2] \in Whitespace

RECURSIVE OpenUlScan(_, _, _)
\* Number of <ul> opened and not closed in the parts from position i on,
\* after open of them; -1 when a '</li></ul>' or the item of a '</li><li>'
\* comes with no list open.
OpenUlScan(toks, i, open) ==
    IF i > Len(toks) THEN open
    ELSE IF toks[i].tok = "ul_li" THEN OpenUlScan(toks, i + 1, open + 1)
    ELSE IF toks[i].tok = "close"
    THEN IF open = 0 THEN -1 ELSE OpenUlScan(toks, i + 1, open - 1)
    ELSE IF toks[i].tok = "li_li"
    THEN IF open = 0 THEN -1 ELSE OpenUlScan(toks, i + 1, open)
    ELSE OpenUlScan(toks, i + 1, open)

\* C23: in markdown_to_html, after every input line current_depth is the
\* number of <ul> opened and not yet closed in the output so far and is
\* never negative, every bullet item is emitted inside an open list, after
\* a bullet line current_depth is floor(indent_spaces / 2) + 1, and at the
\* return every level is closed; for Markdown of any origin.
C23_DepthCountsOpenLists ==
    /\ pc = "html" =>
        /\ current_depth >= 0
        /\ OpenUlScan(html_parts, 1, 0) = current_depth
        /\ (MdReadLines # <<>> /\ IsMdBulletLine(MdReadLines[Len(MdReadLines)])) =>
              current_depth =
                  (LeadingWhitespace(MdReadLines[Len(MdReadLines)]) \div 2) + 1
    /\ pc = "html_done" => OpenUlScan(html_parts, 1, 0) = 0

\* C23 witness: Markdown not made by raw_to_markdown, a bullet at depth 2
\* then one at depth 1: two levels opened, one closed for the second
\* bullet, one at the return.
C23_Witness ==
    /\ entry = "md" /\ pc = "html_done"
    /\ Len(MdInputLines) = 2
    /\ IsMdBulletLine(MdInputLines[1]) /\ IsMdBulletLine(MdInputLines[2])
    /\ [i \in 1..Len(html_parts) |-> html_parts[i].tok] =
           <<"ul_li", "ul_li", "close", "li_li", "close">>

---------------------------------------------------------------------------
(* Properties of the line kinds of raw_to_slack_html.                      *)

\* The loop of raw_to_slack_html is about to read a line.
SlackNextLine == entry = "raw" /\ pc = "slack" /\ lines # <<>>

\* What the step of a Blank line does.
BlankLineStep ==
    (SlackNextLine /\ IsBlankLine(Head(lines))) =>
        /\ parts' = parts \o [i \in 1..Len(list_stack) |-> LI_UL_CLOSE]
        /\ list_stack' = <<>>
        /\ div_open' = div_open
        /\ first_heading' = first_heading

\* C24: in raw_to_slack_html a Blank line emits exactly one '</li></ul>'
\* per entry of list_stack and nothing else, leaves list_stack empty, and
\* keeps div_open and first_heading as they were.
C24_BlankOnlyClosesLists == [][BlankLineStep]_vars

\* C24 witness: a Blank line read after bullets at depths 0 and 1: the two
\* levels are closed by the last two parts and the stack is empty.
C24_Witness ==
    /\ SlackLineRead
    /\ Len(ReadLines) = 3
    /\ IsBlankLine(LastRead)
    /\ LeadingTabs(ReadLines[1]) = 2 /\ LeadingTabs(ReadLines[2]) = 3
    /\ ~IsBlankLine(ReadLines[2])
    /\ list_stack = <<>>
    /\ parts[Len(parts)] = LI_UL_CLOSE /\ parts[Len(parts) - 1] = LI_UL_CLOSE
    /\ CountTok(parts, "li_ul_close") = 2

\* A line with content and exactly one leading tab.
IsSectionLine(line) == ~IsBlankLine(line) /\ LeadingTabs(line) = 1

\* In no prefix of the token stream are a block and a list open together.
NeverBlockAndList(toks) ==
    \A n \in 0..Len(toks) :
        LET s == Scan(ScanStart, SubSeq(toks, 1, n))
        IN ~(s.div > 0 /\ s.ul > 0)

\* C27: in raw_to_slack_html a block and a list are never open at the same
\* time: after every input line div_open is false whenever list_stack is
\* not empty, div_open tells whether a block is open in the output, and no
\* block is open in the output while a list is; div_open is false after a
\* Section line and after a Bullet line, and true after a Heading line.
C27_BlockAndListExclusive ==
    SlackAtLine =>
        /\ list_stack # <<>> => ~div_open
        /\ div_open <=> Scan(ScanStart, parts).div > 0
        /\ NeverBlockAndList(parts)
        /\ (pc = "slack" /\ ReadLines # <<>>) =>
              /\ IsSectionLine(LastRead) => ~div_open
              /\ IsBulletLine(LastRead) => ~div_open
              /\ IsHeadingLine(LastRead) => div_open

\* C27 witness: a Heading line then a Bullet line: the block the heading
\* opened is closed before the list is opened.
C27_Witness ==
    /\ SlackLineRead
    /\ Len(ReadLines) = 2
    /\ IsHeadingLine(ReadLines[1]) /\ IsBulletLine(ReadLines[2])
    /\ ~div_open
    /\ list_stack # <<>>
    /\ \E i \in 1..(Len(parts) - 1) :
          parts[i] = SLACK_DIV_CLOSE /\ parts[i + 1].tok = "ul_open"

---------------------------------------------------------------------------
(* Properties of the offsets of _build_cf_html.                            *)

\* Byte length of the header measured with zero placeholders.
HeaderLenZero == Len(encode_utf8(header_template_format(0, 0, 0, 0)))

\* "<html>"
HtmlTag == SubSeq(cf_prefix, 1, 6)

RECURSIVE ReadDigits(_, _)
\* The decimal digits written from position i of b on.
ReadDigits(b, i) ==
    IF i <= Len(b) /\ b[i] >= 48 /\ b[i] <= 57
    THEN <<b[i]>> \o ReadDigits(b, i + 1)
    ELSE <<>>

RECURSIVE StripZeros(_)
\* A numeral without its leading zeros.
StripZeros(ds) ==
    IF Len(ds) > 1 /\ ds[1] = 48 THEN StripZeros(Tail(ds)) ELSE ds

\* The numeral a reader finds under a label of the header.
HeaderNumeral(b, label) ==
    StripZeros(ReadDigits(b, FindSub(b, label) + Len(label)))

\* a <= b on numerals without leading zeros
NumLeq(a, b) ==
    \/ Len(a) < Len(b)
    \/ /\ Len(a) = Len(b)
       /\ \/ a = b
          \/ \E i \in 1..Len(a) :
                a[i] < b[i] /\ \A j \in 1..(i - 1) : a[j] = b[j]

\* The claim on a payload built in full.
OffsetsOfPayload ==
    LET b == encode_utf8(cf_out)
        at == FindSub(b, HtmlTag) - 1
    IN /\ at = HeaderLenZero
       /\ HeaderField(b, StartHTMLLabel) = at
       /\ HeaderField(b, EndHTMLLabel) = Len(b)
       /\ HeaderField(b, StartHTMLLabel) <= HeaderField(b, StartFragmentLabel)
       /\ HeaderField(b, StartFragmentLabel) <= HeaderField(b, EndFragmentLabel)
       /\ HeaderField(b, EndFragmentLabel) <= HeaderField(b, EndHTMLLabel)

\* The claim on a payload kept as its pieces: '<html>' starts where the
\* header ends, and the payload is as long as its four pieces together.
OffsetsOfLongPayload ==
    LET h == encode_utf8(cf_out.header)
        around == Len(h) + Len(encode_utf8(cf_out.prefix))
                      + Len(encode_utf8(cf_out.suffix))
    IN /\ Len(h) = HeaderLenZero
       /\ HeaderNumeral(h, StartHTMLLabel) = Digits(Len(h))
       /\ HeaderNumeral(h, EndHTMLLabel) =
              int_add(Digits(around), cf_out.fragment.ascii_len, 0)
       /\ NumLeq(HeaderNumeral(h, StartHTMLLabel),
                 HeaderNumeral(h, StartFragmentLabel))
       /\ NumLeq(HeaderNumeral(h, StartFragmentLabel),
                 HeaderNumeral(h, EndFragmentLabel))
       /\ NumLeq(HeaderNumeral(h, EndFragmentLabel),
                 HeaderNumeral(h, EndHTMLLabel))

\* C25: the header _build_cf_html emits is as long as the header measured
\* with zero placeholders, whatever offsets are written into it; StartHTML
\* is the byte offset at which '<html>' starts, EndHTML is the byte length
\* of the whole encoded payload, and StartHTML <= StartFragment <=
\* EndFragment <= EndHTML.
C25_HeaderLengthStable ==
    /\ pc = "cf_done" => OffsetsOfPayload
    /\ pc = "cfl_done" => OffsetsOfLongPayload

---------------------------------------------------------------------------
(* Properties of the alignment of the Pickle buffer.                       *)

RECURSIVE AlignedEnd(_, _, _, _)
\* The parts pp from index i on hold the strings ss, the first count field
\* at the byte offset off of the buffer: the offset at which they end when
\* every count field is 4 bytes at a multiple of 4, every data part is the
\* UTF-16LE encoding of its string, every padding part is 2 zero bytes and
\* data and padding together are a multiple of 4 long; -1 otherwise. A part
\* shorter than 4 bytes after a data part is its padding.
AlignedEnd(pp, i, ss, off) ==
    IF ss = <<>> THEN (IF i = Len(pp) + 1 THEN off ELSE -1)
    ELSE IF i + 1 > Len(pp) THEN -1
    ELSE LET data == pp[i + 1]
             padded == i + 2 <= Len(pp) /\ Len(pp[i + 2]) < 4
             pad == IF padded THEN pp[i + 2] ELSE <<>>
         IN IF /\ off % 4 = 0
               /\ Len(pp[i]) = 4
               /\ data = encode_utf16le(Head(ss))
               /\ Len(pad) \in {0, 2}
               /\ \A k \in 1..Len(pad) : pad[k] = 0
               /\ (Len(data) + Len(pad)) % 4 = 0
            THEN AlignedEnd(pp, IF padded THEN i + 3 ELSE i + 2, Tail(ss),
                            off + 4 + Len(data) + Len(pad))
            ELSE -1

\* C26: in the buffer of _build_chromium_custom_mime every string's count
\* field starts at a multiple of 4, every string's data with its zero
\* padding (0 or 2 bytes) is a multiple of 4 long, and the length of the
\* whole buffer is a multiple of 4.
C26_FourByteAligned ==
    pc = "pickle_done" =>
        /\ pickle_out = pack_u32(Len(Concat(payload_parts))) \o Concat(payload_parts)
        /\ AlignedEnd(payload_parts, 2, EntryStrings(entries), 8) = Len(pickle_out)
        /\ Len(pickle_out) % 4 = 0

\* C26 witness: a buffer of two entries with a string of one code unit (2
\* bytes, padded by 2), one of two code units (4 bytes, no padding) and an
\* empty one.
C26_Witness ==
    /\ pc = "pickle_done"
    /\ Len(entries) = 2
    /\ entries[1] = << <<65>>, <<128512>> >>
    /\ entries[2][1] = <<>>
    /\ \E k \in 1..Len(payload_parts) : payload_parts[k] = <<0, 0>>
===========================================================================
